---- MODULE Spec2Model ----
(***************************************************************************)
(* Craft-Canvas: the reactive property-propagation engine                  *)
(* (updateShapeAndPropagate), the sequenced-instruction executor           *)
(* (executeProgrammingStep), the Firmata codec and the bridge session of   *)
(* src/App.tsx, with the instruction-list handlers of                      *)
(* src/components/PropertiesPanel.tsx.                                     *)
(*                                                                         *)
(* Numbers.  JavaScript numbers are modelled as exact rationals <<n, d>>   *)
(* in lowest terms with d > 0.  Two denominators-zero pairs stand for the  *)
(* values that are no number: Undef (a field the object does not have)     *)
(* and NaN (parseFloat of a literal with no numeric prefix).               *)
(*                                                                         *)
(* Objects.  An object of the store is a function from its field names to  *)
(* their values, so that the shallow merge {...oldShape, ...props} is      *)
(* props @@ oldShape and may add a field.  Fields that no handler of       *)
(* App.tsx reads (nome, view, y, colours, label flags) are left out.       *)
(***************************************************************************)
EXTENDS Integers, Sequences, FiniteSets, TLC

VARIABLES
    appData,          \* App.tsx:50   appData.objects, the committed store
    appDataRef,       \* App.tsx:60   appDataRef.current.objects (set after a render)
    pendingUpdates,   \* updater functions React holds between setState and render
    pc,               \* "idle", or "traversing" inside updateShapeAndPropagate's updater
    objects,          \* App.tsx:242  the updater's working copy
    updateQueue,      \* App.tsx:244
    processedIds,     \* App.tsx:245
    triggeredProgs,   \* App.tsx:246
    hops,             \* pops made by the running traversal
    applied,          \* history: the writes merged by the last traversal, in order
    root,             \* history: the entry the last traversal started from
    executionState,   \* App.tsx:55
    triggerCooldowns, \* App.tsx:56
    pendingWrites,    \* setTimeout(() => updateShape(...), 0) callbacks not yet run
    visited,          \* history: the orders each block has been stepped to
    stepCalls,        \* history: calls of executeProgrammingStep per block
    events,           \* history: handler invocations so far
    hasSerial,        \* App.tsx:446  whether navigator.serial exists
    firmataConnections, \* App.tsx:57  bridge id -> the connection registered for it
    digitalPortStates,  \* App.tsx:58  bridge id -> shadow register of each port
    calls,            \* the invocations of handleConnectFirmata, each with its
                      \* position, its closure and the connection object it made
    closers,          \* the invocations of handleDisconnectFirmata
    revertTimers,     \* App.tsx:490 the 3000 ms timeouts not yet fired
    reports,          \* history: the messages processFirmataMessage was given
    statusHist,       \* history: the values connectionStatus has held
    codec,            \* the codec round trip: input, bytes on the wire, output
    rendered,         \* the store the effects of App.tsx:311 and 499 last ran for
    timers,           \* App.tsx:312  block id -> ticks its interval has run
    now,              \* ticks of the clock so far
    waited,           \* history: block id -> ticks since the block was last stepped
    passes,           \* App.tsx:500  the invocations of sendFirmataData
    lastSentOutputValues, \* App.tsx:59  <<bridge id, output index>> -> value
    released,         \* the connections whose writer lock has been released
    written,          \* history: the output commands written, each with its connection
    faults            \* history: the transport rejections, each with its connection

vars == << appData, appDataRef, pendingUpdates, pc, objects, updateQueue,
           processedIds, triggeredProgs, hops, applied, root,
           executionState, triggerCooldowns, pendingWrites, visited, stepCalls,
           events, hasSerial, firmataConnections, digitalPortStates, calls,
           closers, revertTimers, reports, statusHist, codec, rendered, timers,
           now, waited, passes, lastSentOutputValues, released, written,
           faults >>

engineVars == << pc, objects, updateQueue, processedIds, triggeredProgs, hops,
                 applied, root >>
blockVars == << executionState, triggerCooldowns, pendingWrites, visited,
               stepCalls >>
bridgeVars == << hasSerial, firmataConnections, digitalPortStates, calls,
                 closers, revertTimers, reports >>
timerVars == << timers, now, waited >>
outputVars == << passes, lastSentOutputValues, released, written, faults >>
effectVars == << rendered, timerVars, outputVars >>

-----------------------------------------------------------------------------
(* Bounds of the model *)

\* iterations of one traversal's loop that are followed; a traversal that
\* needs more is left running (the updater never returns)
MaxHops == 8
\* handler invocations (user edits, connects, disconnects, chunks read) per
\* behaviour
MaxEvents == 2
\* calls of executeProgrammingStep the auto timer makes for one block
MaxSteps == 5
\* edits of a block's instruction list per behaviour
MaxEdits == 2

-----------------------------------------------------------------------------
(* Rational arithmetic *)

Abs(n) == IF n < 0 THEN -n ELSE n

RECURSIVE GCD(_, _)
GCD(a, b) == IF b = 0 THEN a ELSE GCD(b, a % b)

Norm(n, d) ==
    LET s == IF d < 0 THEN -1 ELSE 1
        g == GCD(Abs(n), Abs(d))
    IN  << (s * n) \div g, (s * d) \div g >>

R(n) == << n, 1 >>
Undef == << 0, 0 >>
NaN == << 1, 0 >>
IsNum(a) == a[2] # 0

RAdd(a, b) == Norm(a[1] * b[2] + b[1] * a[2], a[2] * b[2])
RSub(a, b) == Norm(a[1] * b[2] - b[1] * a[2], a[2] * b[2])
RMul(a, b) == Norm(a[1] * b[1], a[2] * b[2])
RDiv(a, b) == Norm(a[1] * b[2], a[2] * b[1])
RLt(a, b) == a[1] * b[2] < b[1] * a[2]
RLe(a, b) == a[1] * b[2] <= b[1] * a[2]
RMax(a, b) == IF RLt(a, b) THEN b ELSE a
RMin(a, b) == IF RLt(b, a) THEN b ELSE a
RAbs(a) == << Abs(a[1]), a[2] >>
\* Math.round: the nearest integer, a tie going towards +infinity
RRound(a) == (2 * a[1] + a[2]) \div (2 * a[2])

-----------------------------------------------------------------------------
(* Objects of the store *)

Null == "null"

Range(s) == { s[i] : i \in 1..Len(s) }
Get(o, k) == IF k \in DOMAIN o THEN o[k] ELSE Undef
Truthy(s) == s # "" /\ s # Null

\* objects.findIndex(s => s.id === id); 0 stands for -1
FindIndex(objs, id) ==
    IF \E i \in 1..Len(objs) : objs[i].id = id
    THEN CHOOSE i \in 1..Len(objs) :
            objs[i].id = id /\ \A j \in 1..(i - 1) : objs[j].id # id
    ELSE 0

Has(objs, id) == FindIndex(objs, id) # 0
Obj(objs, id) == objs[FindIndex(objs, id)]

Circle(id, x, diametro) ==
    [id |-> id, type |-> "circulo", x |-> x, diametro |-> diametro]

Slider(id, value, min, max, targetId, targetProperty, inheritedSliderId) ==
    [id |-> id, type |-> "slider", x |-> R(250), value |-> value,
     min |-> min, max |-> max, targetId |-> targetId,
     targetProperty |-> targetProperty, inheritedSliderId |-> inheritedSliderId]

Button(id, targetId, targetProperty, valueOn, valueOff, currentState) ==
    [id |-> id, type |-> "button", x |-> R(250), targetId |-> targetId,
     targetProperty |-> targetProperty, valueOn |-> valueOn,
     valueOff |-> valueOff, currentState |-> currentState]

Programming(id, executionMode, manualTriggerId, linhas) ==
    [id |-> id, type |-> "programming", x |-> R(250),
     executionMode |-> executionMode, manualTriggerId |-> manualTriggerId,
     linhas |-> linhas]

-----------------------------------------------------------------------------
(* parseFloat on the literals of a switch.  A literal is a sequence of     *)
(* one-character strings; parseFloat reads an optional sign, digits and an *)
(* optional fraction, stops at the first character that fits none of       *)
(* these, and yields NaN when it has read no digit.                        *)

Digits == << "0", "1", "2", "3", "4", "5", "6", "7", "8", "9" >>
IsDigit(c) == \E i \in 1..10 : Digits[i] = c
DigitVal(c) == (CHOOSE i \in 1..10 : Digits[i] = c) - 1

RECURSIVE ReadDigits(_, _, _, _)
\* <<numerator, denominator, digits read>> of the digit run of s from i on
ReadDigits(s, i, num, cnt) ==
    IF i <= Len(s) /\ IsDigit(s[i])
    THEN ReadDigits(s, i + 1, 10 * num + DigitVal(s[i]), cnt + 1)
    ELSE << num, cnt, i >>

RECURSIVE Pow10(_)
Pow10(k) == IF k = 0 THEN 1 ELSE 10 * Pow10(k - 1)

ParseFloat(s) ==
    LET neg == Len(s) >= 1 /\ s[1] = "-"
        start == IF Len(s) >= 1 /\ (s[1] = "-" \/ s[1] = "+") THEN 2 ELSE 1
        int == ReadDigits(s, start, 0, 0)
        dot == int[3] <= Len(s) /\ s[int[3]] = "."
        frac == IF dot THEN ReadDigits(s, int[3] + 1, 0, 0) ELSE << 0, 0, int[3] >>
        mag == RAdd(R(int[1]), Norm(frac[1], Pow10(frac[2])))
    IN  IF int[2] + frac[2] = 0 THEN NaN
        ELSE IF neg THEN RSub(R(0), mag) ELSE mag

-----------------------------------------------------------------------------
(* updateShapeAndPropagate: one iteration of the worklist loop *)

Entry(id, props) == [id |-> id, props |-> props]

\* an exemption for the key value alone
ExemptValueOnly(props) == "value" \in DOMAIN props

\* App.tsx:251
Exempt(props) == "value" \in DOMAIN props \/ "currentState" \in DOMAIN props

\* a visited check without the exemption
SkippedWhenDone(e, done) == e.id \in done

Skipped(e, done) == e.id \in done /\ ~Exempt(e.props)

\* App.tsx:257  { ...oldShape, ...props }
Merge(oldShape, props) == props @@ oldShape

\* a binding that always writes the target's value field
TargetPushValueKey(u, props) ==
    IF u.type = "slider" /\ "value" \in DOMAIN props
       /\ Truthy(u.targetId) /\ Truthy(u.targetProperty)
    THEN << [id |-> u.targetId, props |-> ("value" :> u.value)] >>
    ELSE << >>

\* App.tsx:261-264
TargetPush(u, props) ==
    IF u.type = "slider" /\ "value" \in DOMAIN props
       /\ Truthy(u.targetId) /\ Truthy(u.targetProperty)
    THEN << Entry(u.targetId, u.targetProperty :> u.value) >>
    ELSE << >>

\* the rescaling without the slave's own minimum
SlaveValueNoOffset(masterSlider, slaveSlider) ==
    LET masterRange == RSub(masterSlider.max, masterSlider.min)
        slaveRange == RSub(slaveSlider.max, slaveSlider.min)
    IN  IF masterRange = R(0)
        THEN slaveSlider.min
        ELSE RMul(RDiv(RSub(masterSlider.value, masterSlider.min), masterRange),
                  slaveRange)

\* App.tsx:269-273
SlaveValue(masterSlider, slaveSlider) ==
    LET masterRange == RSub(masterSlider.max, masterSlider.min)
        slaveRange == RSub(slaveSlider.max, slaveSlider.min)
    IN  IF masterRange = R(0)
        THEN slaveSlider.min
        ELSE RAdd(slaveSlider.min,
                  RMul(RDiv(RSub(masterSlider.value, masterSlider.min), masterRange),
                       slaveRange))

RECURSIVE SlavePushesFrom(_, _, _)
\* App.tsx:265-278  objects.forEach(slaveCandidate => ...), from index i on
SlavePushesFrom(objs, u, i) ==
    IF i > Len(objs) THEN << >>
    ELSE LET c == objs[i]
         IN  (IF c.type = "slider" /\ c.inheritedSliderId = u.id
                 /\ c.value # SlaveValue(u, c)
              THEN << Entry(c.id, "value" :> SlaveValue(u, c)) >>
              ELSE << >>) \o SlavePushesFrom(objs, u, i + 1)

\* the slave writes queued whether or not the slave's value differs
SlavePushesUnchecked(objs, u, props) ==
    LET F[i \in 0..Len(objs)] ==
            IF i = 0 THEN << >>
            ELSE IF objs[i].type = "slider" /\ objs[i].inheritedSliderId = u.id
                 THEN Append(F[i - 1],
                             Entry(objs[i].id, "value" :> SlaveValue(u, objs[i])))
                 ELSE F[i - 1]
    IN  IF u.type = "slider" /\ "value" \in DOMAIN props
        THEN F[Len(objs)]
        ELSE << >>

SlavePushes(objs, u, props) ==
    IF u.type = "slider" /\ "value" \in DOMAIN props
    THEN SlavePushesFrom(objs, u, 1)
    ELSE << >>

\* the two literals taken the wrong way round
ButtonPushSwapped(u, props) ==
    IF u.type = "button" /\ "currentState" \in DOMAIN props
       /\ Truthy(u.targetId) /\ Truthy(u.targetProperty)
    THEN LET valueToSend == IF u.currentState = R(1) THEN u.valueOff ELSE u.valueOn
             parsedValue == ParseFloat(valueToSend)
         IN  IF parsedValue # NaN
             THEN << [id |-> u.targetId, props |-> (u.targetProperty :> parsedValue)] >>
             ELSE << >>
    ELSE << >>

\* the literal sent whether or not it parsed
ButtonPushUnparsed(u, props) ==
    IF u.type = "button" /\ "currentState" \in DOMAIN props
       /\ Truthy(u.targetId) /\ Truthy(u.targetProperty)
    THEN LET valueToSend == IF u.currentState = R(1) THEN u.valueOn ELSE u.valueOff
         IN  << Entry(u.targetId, u.targetProperty :> ParseFloat(valueToSend)) >>
    ELSE << >>

\* App.tsx:281-289
ButtonPush(u, props) ==
    IF u.type = "button" /\ "currentState" \in DOMAIN props
       /\ Truthy(u.targetId) /\ Truthy(u.targetProperty)
    THEN LET valueToSend == IF u.currentState = R(1) THEN u.valueOn ELSE u.valueOff
             parsedValue == ParseFloat(valueToSend)
         IN  IF parsedValue # NaN
             THEN << Entry(u.targetId, u.targetProperty :> parsedValue) >>
             ELSE << >>
    ELSE << >>

\* the trigger scan taking blocks of either mode
TriggeredAnyMode(objs, u) ==
    { objs[i].id : i \in { j \in 1..Len(objs) :
          /\ objs[j].type = "programming"
          /\ objs[j].manualTriggerId = u.id } }

\* App.tsx:291-295
Triggered(objs, u) ==
    { objs[i].id : i \in { j \in 1..Len(objs) :
          /\ objs[j].type = "programming"
          /\ objs[j].executionMode = "manual"
          /\ objs[j].manualTriggerId = u.id } }

-----------------------------------------------------------------------------
(* React's updater queue.  setAppData(fn) and setExecutionState(fn) hold   *)
(* fn until the next render, which runs the held updaters in order; the    *)
(* effect of App.tsx:62-64 copies the rendered store into appDataRef once  *)
(* the render is over.  Event handlers and timer callbacks run between     *)
(* renders.                                                                *)

Updater(kind, id, props) == [kind |-> kind, id |-> id, props |-> props]
NoProps == [k \in {} |-> Undef]
NoRoot == Entry("", NoProps)

\* the store the effects last ran for; on is FALSE where a specification leaves
\* the effects of App.tsx:311-325 and 499-548 out
Rendered(on, store) == [on |-> on, store |-> store]

\* a render has committed a store the effects have not run for yet
EffectDue == rendered.on /\ rendered.store # appData

\* React is at rest: no updater is held or running and no effect is due
Quiescent == pc = "idle" /\ pendingUpdates = << >> /\ ~EffectDue

\* the store the next effect run will see: appDataRef follows appData when
\* no updater is left to run
RefAfter(store, pending) == IF pending = << >> THEN store ELSE appDataRef

IdleEngine ==
    /\ pc' = "idle"
    /\ objects' = << >>
    /\ updateQueue' = << >>
    /\ processedIds' = {}
    /\ triggeredProgs' = << >>
    /\ hops' = 0

RECURSIVE AppendNew(_, _)
\* Set.add for each element of s, in order (a JS Set keeps insertion order)
AppendNew(seq, s) ==
    IF s = << >> THEN seq
    ELSE AppendNew(IF Head(s) \in Range(seq) THEN seq ELSE Append(seq, Head(s)),
                   Tail(s))

\* the manual blocks of objs triggered by u, in store order
TriggeredSeq(objs, u) ==
    LET hit(i) == objs[i].id \in Triggered(objs, u)
        F[i \in 0..Len(objs)] ==
            IF i = 0 THEN << >>
            ELSE IF hit(i) THEN Append(F[i - 1], objs[i].id) ELSE F[i - 1]
    IN  F[Len(objs)]

\* the bridge object of the store: the model has at most one, named fF
BridgeId == "fF"

\* connectionStatus of the bridge in a store, "absent" without a bridge
Status(store) ==
    IF Has(store, BridgeId) THEN Obj(store, BridgeId).connectionStatus ELSE "absent"

\* the status history once store is committed
Track(store) ==
    IF Status(store) = statusHist[Len(statusHist)] THEN statusHist
    ELSE Append(statusHist, Status(store))

RECURSIVE Called(_, _)
\* the call counts after one more call for each block of progs
Called(counts, progs) ==
    IF progs = << >> THEN counts
    ELSE LET p == Head(progs)
             n == IF p \in DOMAIN counts THEN counts[p] ELSE 0
         IN  Called((p :> n + 1) @@ counts, Tail(progs))

\* the codec variable of the specifications that make no round trip
NoCodec == [stage |-> "none"]

-----------------------------------------------------------------------------
(* updateShapeAndPropagate (App.tsx:240-308) *)

\* App.tsx:241-246: the updater starts on prevData
BeginPropagate ==
    /\ pc = "idle"
    /\ pendingUpdates # << >>
    /\ Head(pendingUpdates).kind = "propagate"
    /\ LET h == Head(pendingUpdates)
       IN  /\ updateQueue' = << Entry(h.id, h.props) >>
           /\ root' = Entry(h.id, h.props)
    /\ pc' = "traversing"
    /\ objects' = appData
    /\ processedIds' = {}
    /\ triggeredProgs' = << >>
    /\ hops' = 0
    /\ applied' = << >>
    /\ pendingUpdates' = Tail(pendingUpdates)
    /\ UNCHANGED << appData, appDataRef, blockVars, events, bridgeVars,
                    statusHist, codec, effectVars >>

\* a merge that takes the object out of the list and puts the merged one at
\* its end
MergedObjectsAppended(objs, e) ==
    Append(SelectSeq(objs, LAMBDA shape : shape.id # e.id),
           Merge(objs[FindIndex(objs, e.id)], e.props))

\* App.tsx:256-258: the working copy after merging entry e
MergedObjects(objs, e) ==
    LET idx == FindIndex(objs, e.id)
    IN  [objs EXCEPT ![idx] = Merge(objs[idx], e.props)]

\* a loop that queues the entry it has just processed once more
PushesAndRequeues(objs, e) ==
    LET after == MergedObjects(objs, e)
        u == Obj(after, e.id)
    IN  TargetPush(u, e.props) \o SlavePushes(after, u, e.props)
            \o ButtonPush(u, e.props) \o << e >>

\* App.tsx:261-289: what processing e appends to the queue
Pushes(objs, e) ==
    LET after == MergedObjects(objs, e)
        u == Obj(after, e.id)
    IN  TargetPush(u, e.props) \o SlavePushes(after, u, e.props)
            \o ButtonPush(u, e.props)

\* the loop writing into prevData.objects itself instead of a copy
VisibleDuringInPlace(objs) == << objs, objs >>

\* what observers can read while the loop runs: the updater works on a copy
\* (App.tsx:242), so the store and the ref keep prevData
VisibleDuring(objs) == << appData, appDataRef >>

\* App.tsx:248-296: one iteration of the while loop
PopStep ==
    /\ pc = "traversing"
    /\ updateQueue # << >>
    /\ hops < MaxHops
    /\ LET e == Head(updateQueue)
       IN  IF Skipped(e, processedIds) \/ ~Has(objects, e.id)
           THEN /\ updateQueue' = Tail(updateQueue)
                /\ UNCHANGED << objects, processedIds, triggeredProgs, applied >>
           ELSE /\ objects' = MergedObjects(objects, e)
                /\ processedIds' = processedIds \cup {e.id}
                /\ updateQueue' = Tail(updateQueue) \o Pushes(objects, e)
                /\ triggeredProgs' =
                       AppendNew(triggeredProgs,
                                 TriggeredSeq(MergedObjects(objects, e),
                                              Obj(MergedObjects(objects, e), e.id)))
                /\ applied' = Append(applied, e)
    /\ hops' = hops + 1
    /\ appData' = VisibleDuring(objects')[1]
    /\ appDataRef' = VisibleDuring(objects')[2]
    /\ UNCHANGED << pc, root, pendingUpdates, blockVars, events, bridgeVars,
                    statusHist, codec, effectVars >>

\* a step procedure without the cooldown test
StepAcceptedAlways(progId, cooldowns) == TRUE

\* App.tsx:207-212, 214: executeProgrammingStep up to its setExecutionState
StepAccepted(progId, cooldowns) == progId \notin cooldowns

\* App.tsx:299-304: the blocks stepped when the loop is over
FiredProgs(objs, progs, cooldowns) ==
    SelectSeq(progs, LAMBDA p : Has(objs, p) /\ StepAccepted(p, cooldowns))

ExecUpdaters(progs) ==
    [i \in 1..Len(progs) |-> Updater("exec", progs[i], NoProps)]

\* App.tsx:298-306: the loop is over; fire the triggers, return the new store
FinishPropagate ==
    /\ pc = "traversing"
    /\ updateQueue = << >>
    /\ LET fired == FiredProgs(objects, triggeredProgs, triggerCooldowns)
           pending == pendingUpdates \o ExecUpdaters(fired)
       IN  /\ triggerCooldowns' = triggerCooldowns \cup Range(fired)
           /\ pendingUpdates' = pending
           /\ appData' = objects
           /\ appDataRef' = RefAfter(objects, pending)
    /\ stepCalls' = Called(stepCalls, SelectSeq(triggeredProgs,
                                                LAMBDA p : Has(objects, p)))
    /\ statusHist' = Track(objects)
    /\ IdleEngine
    /\ UNCHANGED << applied, root, executionState, pendingWrites, visited, events,
                    bridgeVars, codec, effectVars >>

\* App.tsx:194-204: updateShape's updater
PlainUpdater ==
    /\ pc = "idle"
    /\ pendingUpdates # << >>
    /\ Head(pendingUpdates).kind = "plain"
    /\ LET h == Head(pendingUpdates)
           store == IF Has(appData, h.id)
                    THEN MergedObjects(appData, Entry(h.id, h.props))
                    ELSE appData
       IN  /\ appData' = store
           /\ appDataRef' = RefAfter(store, Tail(pendingUpdates))
           /\ statusHist' = Track(store)
    /\ pendingUpdates' = Tail(pendingUpdates)
    /\ root' = NoRoot
    /\ applied' = << >>
    /\ UNCHANGED << pc, objects, updateQueue, processedIds, triggeredProgs, hops,
                    blockVars, events, bridgeVars, codec, effectVars >>

-----------------------------------------------------------------------------
(* executeProgrammingStep (App.tsx:206-237) *)

Linha(targetObjectId, property, value, ordem) ==
    [targetObjectId |-> targetObjectId, property |-> property,
     value |-> value, ordem |-> ordem]

\* prevState[progId] || 0
CurrentOrdem(state, progId) == IF progId \in DOMAIN state THEN state[progId] ELSE 0

VisitedOf(progId) == IF progId \in DOMAIN visited THEN visited[progId] ELSE << >>

CallsOf(progId) == IF progId \in DOMAIN stepCalls THEN stepCalls[progId] ELSE 0

\* a cursor that goes on counting past the last instruction
NextOrdemNoWrap(currentOrdem, n) == currentOrdem + 1

\* a cursor counted from zero
NextOrdemFromZero(currentOrdem, n) == (currentOrdem + 1) % n

\* App.tsx:224
NextOrdem(currentOrdem, n) == (currentOrdem % n) + 1

\* linhas.find(l => l.ordem === nextOrdem); << >> stands for undefined
FindLine(linhas, ordem) ==
    IF \E i \in 1..Len(linhas) : linhas[i].ordem = ordem
    THEN << linhas[CHOOSE i \in 1..Len(linhas) :
                /\ linhas[i].ordem = ordem
                /\ \A j \in 1..(i - 1) : linhas[j].ordem # ordem] >>
    ELSE << >>

\* App.tsx:228-234: the write the step schedules with setTimeout(..., 0)
ScheduledWrite(linhas, ordem) ==
    LET found == FindLine(linhas, ordem)
    IN  IF found # << >> /\ Truthy(found[1].targetObjectId)
           /\ Truthy(found[1].property)
        THEN << Entry(found[1].targetObjectId, found[1].property :> found[1].value) >>
        ELSE << >>

\* App.tsx:207-213: a timer or a trigger calls executeProgrammingStep
StepCall(progId) ==
    IF StepAccepted(progId, triggerCooldowns)
    THEN /\ triggerCooldowns' = triggerCooldowns \cup {progId}
         /\ pendingUpdates' = Append(pendingUpdates, Updater("exec", progId, NoProps))
         /\ stepCalls' = Called(stepCalls, << progId >>)
    ELSE /\ UNCHANGED << triggerCooldowns, pendingUpdates >>
         /\ stepCalls' = Called(stepCalls, << progId >>)

\* App.tsx:214-236: the setExecutionState updater
ExecUpdater ==
    /\ pc = "idle"
    /\ pendingUpdates # << >>
    /\ Head(pendingUpdates).kind = "exec"
    /\ LET progId == Head(pendingUpdates).id
           linhas == IF Has(appDataRef, progId)
                     THEN Obj(appDataRef, progId).linhas ELSE << >>
           nextOrdem == NextOrdem(CurrentOrdem(executionState, progId), Len(linhas))
       IN  IF linhas = << >>
           THEN UNCHANGED << executionState, pendingWrites, visited >>
           ELSE /\ executionState' = (progId :> nextOrdem) @@ executionState
                /\ pendingWrites' = pendingWrites \o ScheduledWrite(linhas, nextOrdem)
                /\ visited' = (progId :> Append(VisitedOf(progId), nextOrdem))
                                  @@ visited
    /\ pendingUpdates' = Tail(pendingUpdates)
    /\ appDataRef' = RefAfter(appData, Tail(pendingUpdates))
    /\ UNCHANGED << appData, engineVars, triggerCooldowns, stepCalls, events,
                    bridgeVars, statusHist, codec, effectVars >>

\* App.tsx:232: the zero-delay timeout runs updateShape
WriteTimeout ==
    /\ Quiescent
    /\ pendingWrites # << >>
    /\ pendingUpdates' = << Updater("plain", Head(pendingWrites).id,
                                    Head(pendingWrites).props) >>
    /\ pendingWrites' = Tail(pendingWrites)
    /\ UNCHANGED << appData, appDataRef, engineVars, executionState,
                    triggerCooldowns, visited, stepCalls, events, bridgeVars,
                    statusHist, codec, effectVars >>

\* App.tsx:210-212: the 100 ms timeout clears the cooldown flag
CooldownExpire ==
    /\ Quiescent
    /\ \E progId \in triggerCooldowns :
           triggerCooldowns' = triggerCooldowns \ {progId}
    /\ UNCHANGED << appData, appDataRef, pendingUpdates, engineVars,
                    executionState, pendingWrites, visited, stepCalls, events,
                    bridgeVars, statusHist, codec, effectVars >>

-----------------------------------------------------------------------------
(* The propagation engine on a store of three sliders, a switch, a circle  *)
(* and a manual block.  The store is a snapshot loaded at start-up         *)
(* (App.tsx:66-76) whose bindings are ones the inspector lets a user set:  *)
(* a target other than the object itself, a numeric property of the        *)
(* target, a master other than the slider itself.                          *)

MasterRanges == { << R(0), R(10) >>, << R(4), R(4) >> }
NoBinding == << "", "" >>
MasterTargets == { NoBinding, << "cC", "x" >>, << "sB", "value" >> }
SlaveTargets == { NoBinding, << "cC", "diametro" >> }
\* <<inheritedSliderId, target>> of the third slider
ThirdSliders == { << Null, NoBinding >>, << "sA", NoBinding >>,
                  << "sA", << "sB", "value" >> >> }
SwitchTargets == { << "cC", "x" >>, << "sB", "value" >> }

EngineSnapshots ==
    { << Slider("sA", R(0), ar[1], ar[2], at[1], at[2], ai),
         Slider("sB", R(0), R(0), R(20), bt[1], bt[2], bi),
         Slider("sK", R(0), R(2), R(12), k[2][1], k[2][2], k[1]),
         Button("bW", wt[1], wt[2], << "1" >>, << "0" >>, R(0)),
         Circle("cC", R(250), R(100)),
         Programming("pP", "manual", "cC",
                     << Linha("cC", "diametro", R(7), 1) >>) >> :
        ar \in MasterRanges, at \in MasterTargets, ai \in { Null, "sB" },
        bt \in SlaveTargets, bi \in { Null, "sA" },
        k \in ThirdSliders, wt \in SwitchTargets }

\* the edits the canvas and the inspector issue through onUpdateShape
EngineInputs ==
    { Entry("sA", "value" :> R(5)),
      Entry("bW", "currentState" :> R(1)), Entry("bW", "currentState" :> R(0)),
      Entry("cC", "x" :> R(7)) }

InitCommon ==
    /\ appDataRef = appData
    /\ pendingUpdates = << >>
    /\ pc = "idle"
    /\ objects = << >>
    /\ updateQueue = << >>
    /\ processedIds = {}
    /\ triggeredProgs = << >>
    /\ hops = 0
    /\ applied = << >>
    /\ root = NoRoot
    /\ executionState = [k \in {} |-> 0]
    /\ triggerCooldowns = {}
    /\ pendingWrites = << >>
    /\ visited = [k \in {} |-> << >>]
    /\ stepCalls = [k \in {} |-> 0]
    /\ events = 0
    /\ firmataConnections = [k \in {} |-> 0]
    /\ digitalPortStates = [k \in {} |-> << >>]
    /\ calls = << >>
    /\ closers = << >>
    /\ revertTimers = << >>
    /\ reports = << >>
    /\ statusHist = << Status(appData) >>
    /\ now = 0
    /\ passes = << >>
    /\ lastSentOutputValues = [k \in {} |-> Undef]
    /\ released = {}
    /\ written = << >>
    /\ faults = {}

\* the specifications that leave the effects out
NoEffects ==
    /\ rendered = Rendered(FALSE, << >>)
    /\ timers = [k \in {} |-> 0]
    /\ waited = [k \in {} |-> 0]

\* App.tsx:588, 597: onUpdateShape={updateShapeAndPropagate}
UserApply(inputs, limit) ==
    /\ Quiescent
    /\ events < limit
    /\ \E in \in inputs :
           pendingUpdates' = << Updater("propagate", in.id, in.props) >>
    /\ events' = events + 1
    /\ UNCHANGED << appData, appDataRef, engineVars, blockVars, bridgeVars,
                    statusHist, codec, effectVars >>

EngineInit ==
    /\ appData \in EngineSnapshots
    /\ hasSerial = TRUE
    /\ codec = NoCodec
    /\ InitCommon
    /\ NoEffects

EngineNext ==
    \/ UserApply(EngineInputs, MaxEvents)
    \/ BeginPropagate
    \/ PopStep
    \/ FinishPropagate
    \/ ExecUpdater
    \/ WriteTimeout
    \/ PlainUpdater
    \/ CooldownExpire

SpecEngine == EngineInit /\ [][EngineNext]_vars

-----------------------------------------------------------------------------
(* The sequenced block: its auto timer (App.tsx:311-325) and the           *)
(* instruction-list handlers of the inspector (PropertiesPanel.tsx:488-514)*)

\* App.tsx:313-317: the interval of an auto block with instructions fires
AutoTimerFire ==
    /\ Quiescent
    /\ \E i \in 1..Len(appData) :
           /\ appData[i].type = "programming"
           /\ appData[i].executionMode = "auto"
           /\ Len(appData[i].linhas) > 0
           /\ CallsOf(appData[i].id) < MaxSteps
           /\ StepCall(appData[i].id)
    /\ UNCHANGED << appData, appDataRef, engineVars, executionState,
                    pendingWrites, visited, events, bridgeVars, statusHist, codec,
                    effectVars >>

\* the block shown in the inspector (App.tsx:568: selectedShape)
SelectedBlocks ==
    { i \in 1..Len(appData) : appData[i].type = "programming" }

\* onUpdateShape(selectedShape.id, { linhas: newLinhas })
IssueLinhas(i, newLinhas) ==
    /\ pendingUpdates' = << Updater("propagate", appData[i].id,
                                    "linhas" :> newLinhas) >>
    /\ events' = events + 1
    /\ UNCHANGED << appData, appDataRef, engineVars, blockVars, bridgeVars,
                    statusHist, codec, effectVars >>

\* PropertiesPanel.tsx:498-507
AddLine ==
    /\ Quiescent
    /\ events < MaxEdits
    /\ \E i \in SelectedBlocks :
           IssueLinhas(i, Append(appData[i].linhas,
                                 Linha("", "", R(0), Len(appData[i].linhas) + 1)))

\* the list without its element at position index, elements otherwise as they are
Filtered(linhas, index) ==
    [j \in 1..(Len(linhas) - 1) |-> IF j < index THEN linhas[j] ELSE linhas[j + 1]]

\* a renumbering that leaves every order as it was
RenumberedKept(linhas) == linhas

\* PropertiesPanel.tsx:512: .map((line, newIndex) => ({...line, ordem: newIndex + 1}))
Renumbered(linhas) ==
    [j \in 1..Len(linhas) |-> [linhas[j] EXCEPT !.ordem = j]]

\* PropertiesPanel.tsx:509-514
DeleteLine ==
    /\ Quiescent
    /\ events < MaxEdits
    /\ \E i \in SelectedBlocks :
           \E index \in 1..Len(appData[i].linhas) :
               IssueLinhas(i, Renumbered(Filtered(appData[i].linhas, index)))

\* the changes the three inputs of an instruction row make
\* (PropertiesPanel.tsx:761, 765, 769)
LineEdits ==
    { "targetObjectId" :> "cC", "property" :> "diametro", "value" :> R(9) }

\* PropertiesPanel.tsx:488-496
EditLine ==
    /\ Quiescent
    /\ events < MaxEdits
    /\ \E i \in SelectedBlocks :
           \E index \in 1..Len(appData[i].linhas), updatedLine \in LineEdits :
               LET merged == updatedLine @@ appData[i].linhas[index]
                   line == IF "targetObjectId" \in DOMAIN updatedLine
                           THEN ("property" :> "") @@ merged
                           ELSE merged
               IN  IssueLinhas(i, [appData[i].linhas EXCEPT ![index] = line])

\* a block of three instructions that can be told apart
ThreeLines ==
    << Linha("cC", "x", R(10), 1), Linha("cC", "diametro", R(20), 2),
       Linha("cC", "x", R(30), 3) >>

BlockModes == { << "auto", Null >>, << "manual", "cC" >> }

BlockSnapshots ==
    { << Programming("pB", m[1], m[2], SubSeq(ThreeLines, 1, n)),
         Circle("cC", R(250), R(100)) >> : m \in BlockModes, n \in { 0, 3 } }

BlockInputs == { Entry("cC", "x" :> R(7)) }

BlockInit ==
    /\ appData \in BlockSnapshots
    /\ hasSerial = TRUE
    /\ codec = NoCodec
    /\ InitCommon
    /\ NoEffects

BlockNext ==
    \/ AddLine
    \/ DeleteLine
    \/ EditLine
    \/ UserApply(BlockInputs, MaxEdits)
    \/ AutoTimerFire
    \/ BeginPropagate
    \/ PopStep
    \/ FinishPropagate
    \/ ExecUpdater
    \/ WriteTimeout
    \/ PlainUpdater
    \/ CooldownExpire

SpecBlock == BlockInit /\ [][BlockNext]_vars

\* an auto block of one to three instructions, stepped by its timer only
StepSnapshots ==
    { << Programming("pB", "auto", Null, SubSeq(ThreeLines, 1, n)),
         Circle("cC", R(250), R(100)) >> : n \in 1..3 }

StepInit ==
    /\ appData \in StepSnapshots
    /\ hasSerial = TRUE
    /\ codec = NoCodec
    /\ InitCommon
    /\ NoEffects

StepNext ==
    \/ AutoTimerFire
    \/ ExecUpdater
    \/ WriteTimeout
    \/ PlainUpdater
    \/ CooldownExpire

SpecStep == StepInit /\ [][StepNext]_vars

-----------------------------------------------------------------------------
(* The Firmata codec: the bytes sendFirmataData builds (App.tsx:520-542),  *)
(* the parser of readFromPort (App.tsx:415-433) and the decoding of        *)
(* processFirmataMessage (App.tsx:377-407).  Bytes are integers 0..255.    *)

SET_PIN_MODE == 244
REPORT_ANALOG == 192
REPORT_DIGITAL == 208
ANALOG_MESSAGE == 224
DIGITAL_MESSAGE == 144

RECURSIVE BitAnd(_, _)
\* a & b on non-negative integers
BitAnd(a, b) ==
    IF a = 0 \/ b = 0 THEN 0
    ELSE (a % 2) * (b % 2) + 2 * BitAnd(a \div 2, b \div 2)

RECURSIVE BitOr(_, _)
\* a | b on non-negative integers
BitOr(a, b) ==
    IF a = 0 THEN b
    ELSE IF b = 0 THEN a
    ELSE (IF a % 2 = 1 \/ b % 2 = 1 THEN 1 ELSE 0) + 2 * BitOr(a \div 2, b \div 2)

RECURSIVE Pow2(_)
Pow2(k) == IF k = 0 THEN 1 ELSE 2 * Pow2(k - 1)

\* a >> k and a << k on non-negative integers
Shr(a, k) == a \div Pow2(k)
Shl(a, k) == a * Pow2(k)

\* new Uint8Array([...]) keeps the low 8 bits of each element
Uint8(bytes) == [j \in 1..Len(bytes) |-> bytes[j] % 256]

\* PropertiesPanel.tsx:553-556, 804-806: an input mapping; adcMax follows adcBits
InputMapping(pin, mode, targetId, property, min, max, adcBits) ==
    [pin |-> pin, mode |-> mode, targetId |-> targetId, property |-> property,
     min |-> min, max |-> max, adcBits |-> adcBits, adcMax |-> Pow2(adcBits) - 1]

\* PropertiesPanel.tsx:558-560
OutputMapping(sourceId, property, pin, mode) ==
    [sourceId |-> sourceId, property |-> property, pin |-> pin, mode |-> mode]

\* App.tsx:521-525: the duty sent for currentValue of a source ranging over
\* sourceMin..sourceMax
PwmValue(currentValue, sourceMin, sourceMax) ==
    LET range == RSub(sourceMax, sourceMin)
        scaledValue == IF range = R(0) THEN R(0)
                       ELSE RMul(RDiv(RSub(currentValue, sourceMin), range), R(255))
    IN  RRound(RMax(R(0), RMin(R(255), scaledValue)))

\* App.tsx:526
PwmCommand(pin, pwmValue) ==
    Uint8(<< BitOr(ANALOG_MESSAGE, pin), BitAnd(pwmValue, 127),
             BitAnd(Shr(pwmValue, 7), 127) >>)

\* App.tsx:457: the parser of a new connection; command 0 stands for null
IdleParser ==
    [command |-> 0, pinOrPort |-> 0, buffer |-> << >>, bytesToCollect |-> 0,
     state |-> "idle"]

\* a parser that starts over on a command byte met while collecting
FeedByteResync(parser, byte) ==
    LET command == BitAnd(byte, 240)
        isCommand == command = ANALOG_MESSAGE \/ command = DIGITAL_MESSAGE
    IN  IF isCommand
        THEN << [parser EXCEPT !.command = command,
                               !.pinOrPort = BitAnd(byte, 15),
                               !.state = "collecting",
                               !.bytesToCollect = 2,
                               !.buffer = << >>], << >> >>
        ELSE IF parser.state = "idle" THEN << parser, << >> >>
        ELSE LET buffer == Append(parser.buffer, byte)
             IN  IF Len(buffer) = parser.bytesToCollect
                 THEN << [parser EXCEPT !.state = "idle", !.buffer = << >>],
                         << [parser EXCEPT !.buffer = buffer] >> >>
                 ELSE << [parser EXCEPT !.buffer = buffer], << >> >>

\* App.tsx:416-432: the parser after one byte, and the message it dispatched
\* (<< >> when none)
FeedByte(parser, byte) ==
    IF parser.state = "idle"
    THEN LET command == BitAnd(byte, 240)
         IN  IF command = ANALOG_MESSAGE \/ command = DIGITAL_MESSAGE
             THEN << [parser EXCEPT !.command = command,
                                    !.pinOrPort = BitAnd(byte, 15),
                                    !.state = "collecting",
                                    !.bytesToCollect = 2], << >> >>
             ELSE << parser, << >> >>
    ELSE LET buffer == Append(parser.buffer, byte)
         IN  IF Len(buffer) = parser.bytesToCollect
             THEN << [parser EXCEPT !.state = "idle", !.buffer = << >>],
                     << [parser EXCEPT !.buffer = buffer] >> >>
             ELSE << [parser EXCEPT !.buffer = buffer], << >> >>

RECURSIVE FeedBytes(_, _, _)
\* App.tsx:415: the parser after a chunk, and the messages dispatched, in order
FeedBytes(parser, bytes, messages) ==
    IF bytes = << >> THEN << parser, messages >>
    ELSE LET fed == FeedByte(parser, Head(bytes))
         IN  FeedBytes(fed[1], Tail(bytes), messages \o fed[2])

\* a payload read with the second byte eight bits up
MessageValueShift8(buffer) == BitOr(buffer[1], Shl(buffer[2], 8))

\* App.tsx:381-382
MessageValue(buffer) == BitOr(buffer[1], Shl(buffer[2], 7))

\* inputs.find(m => m.mode === mode && m.pin === pin); << >> stands for undefined
FindMapping(inputs, mode, pin) ==
    LET hits == { j \in 1..Len(inputs) : inputs[j].mode = mode /\ inputs[j].pin = pin }
    IN  IF hits = {} THEN << >>
        ELSE << inputs[CHOOSE j \in hits : \A k \in hits : j <= k] >>

\* the mapping is found and names a target and a property
Usable(found) ==
    found # << >> /\ Truthy(found[1].targetId) /\ Truthy(found[1].property)

\* an analog report scaled by the 10-bit full scale whatever the mapping says
AnalogWritesTenBit(inputs, pin, value) ==
    LET found == FindMapping(inputs, "Analog", pin + 14)
    IN  IF Usable(found)
        THEN << Entry(found[1].targetId,
                      found[1].property :>
                          RAdd(found[1].min,
                               RMul(RDiv(R(value), R(1023)),
                                    RSub(found[1].max, found[1].min)))) >>
        ELSE << >>

\* App.tsx:384-394: the write an analog report makes
AnalogWrites(inputs, pin, value) ==
    LET found == FindMapping(inputs, "Analog", pin + 14)
    IN  IF Usable(found)
        THEN LET mapping == found[1]
                 adcMax == IF mapping.adcMax # 0 THEN mapping.adcMax ELSE 1023
                 range == RSub(mapping.max, mapping.min)
                 mappedValue == RAdd(mapping.min,
                                     RMul(RDiv(R(value), R(adcMax)), range))
             IN  << Entry(mapping.targetId, mapping.property :> mappedValue) >>
        ELSE << >>

\* bit i of a report read one position too high
PinStateShifted(value, i) == BitAnd(Shr(value, i + 1), 1)

\* App.tsx:401
PinState(value, i) == BitAnd(Shr(value, i), 1)

\* App.tsx:397-405: the writes a digital report makes, for pins i..7 of the port
RECURSIVE DigitalWritesFrom(_, _, _, _)
DigitalWritesFrom(inputs, portNum, value, i) ==
    IF i > 7 THEN << >>
    ELSE LET found == FindMapping(inputs, "Digital", portNum * 8 + i)
             this == IF Usable(found)
                     THEN << Entry(found[1].targetId,
                                   found[1].property :>
                                       (IF PinState(value, i) = 1
                                        THEN found[1].max ELSE found[1].min)) >>
                     ELSE << >>
         IN  this \o DigitalWritesFrom(inputs, portNum, value, i + 1)

\* App.tsx:377-407: the applies processFirmataMessage issues for one message
MessageWrites(store, firmataId, message) ==
    IF ~Has(store, firmataId) \/ Obj(store, firmataId).type # "firmata"
    THEN << >>
    ELSE LET inputs == Obj(store, firmataId).inputs
             value == MessageValue(message.buffer)
         IN  IF message.command = ANALOG_MESSAGE
             THEN AnalogWrites(inputs, message.pinOrPort, value)
             ELSE IF message.command = DIGITAL_MESSAGE
             THEN DigitalWritesFrom(inputs, message.pinOrPort, value, 0)
             ELSE << >>

\* App.tsx:166-176: a bridge object; mappings.inputs and mappings.outputs are
\* kept as the fields inputs and outputs
Firmata(id, connectionStatus, inputs, outputs) ==
    [f \in { "id", "type", "connectionStatus", "inputs", "outputs" } |->
        CASE f = "id" -> id
          [] f = "type" -> "firmata"
          [] f = "connectionStatus" -> connectionStatus
          [] f = "inputs" -> inputs
          [] f = "outputs" -> outputs]

-----------------------------------------------------------------------------
(* The codec round trip: a PWM output value is encoded, the bytes are fed  *)
(* to the parser of a new connection and the message is decoded through an *)
(* Analog input mapping with the source's min and max.                     *)

\* points taken in each source range
CodecSteps == 8

\* <<sourceMin, sourceMax>>
CodecRanges == { << 0, 1023 >>, << 0, 255 >>, << 0, 500 >>, << 10, 20 >>, << 7, 7 >> }
\* the ADC widths the inspector offers (PropertiesPanel.tsx:809-810)
AdcWidths == { 10, 12 }
\* output pins; analog channel p is input pin p + 14 (App.tsx:386)
CodecPins == { 0, 5 }

CodecInputs ==
    { [stage |-> "input", pin |-> p, adcBits |-> w,
       min |-> R(r[1]), max |-> R(r[2]),
       x |-> RAdd(R(r[1]), RDiv(R(k * (r[2] - r[1])), R(CodecSteps))),
       bytes |-> << >>, out |-> Undef] :
        p \in CodecPins, w \in AdcWidths, r \in CodecRanges, k \in 0..CodecSteps }

\* the store of the decoding side: a bridge with the matching mapping
CodecStore(c) ==
    << Firmata(BridgeId, "connected",
               << InputMapping(c.pin + 14, "Analog", "cC", "x", c.min, c.max,
                               c.adcBits) >>, << >>) >>

\* App.tsx:520-527
Encode ==
    /\ codec.stage = "input"
    /\ codec' = [codec EXCEPT !.stage = "wire",
                              !.bytes = PwmCommand(codec.pin,
                                                   PwmValue(codec.x, codec.min, codec.max))]
    /\ UNCHANGED << appData, appDataRef, pendingUpdates, engineVars, blockVars,
                    events, bridgeVars, statusHist, effectVars >>

\* App.tsx:415-433, 377-394
Decode ==
    /\ codec.stage = "wire"
    /\ LET fed == FeedBytes(IdleParser, codec.bytes, << >>)
           writes == IF Len(fed[2]) = 1
                     THEN MessageWrites(CodecStore(codec), BridgeId, fed[2][1])
                     ELSE << >>
       IN  codec' = [codec EXCEPT !.stage = "decoded",
                                  !.out = IF writes = << >> THEN Undef
                                          ELSE writes[1].props["x"]]
    /\ UNCHANGED << appData, appDataRef, pendingUpdates, engineVars, blockVars,
                    events, bridgeVars, statusHist, effectVars >>

CodecInit ==
    /\ appData = << >>
    /\ hasSerial = TRUE
    /\ codec \in CodecInputs
    /\ InitCommon
    /\ NoEffects

CodecNext == Encode \/ Decode

SpecCodec == CodecInit /\ [][CodecNext]_vars

-----------------------------------------------------------------------------
(* The bridge session: handleConnectFirmata (App.tsx:441-497), readFromPort *)
(* (App.tsx:409-439) and handleDisconnectFirmata (App.tsx:551-566).  An     *)
(* async function is a process: each await is a position at which the      *)
(* invocation waits for the transport, which resolves or rejects.  The      *)
(* connection object an invocation makes is identified with the invocation. *)

\* App.tsx:464-467
RECURSIVE OutputSetup(_)
OutputSetup(outputs) ==
    IF outputs = << >> THEN << >>
    ELSE LET mapping == Head(outputs)
             mode == IF mapping.mode = "PWM" THEN 3 ELSE 1
         IN  << Uint8(<< SET_PIN_MODE, mapping.pin, mode >>) >>
                 \o OutputSetup(Tail(outputs))

RECURSIVE InputSetupUnguarded(_)
\* the input setup without the test of line 471: an Analog mapping below
\* pin 14 is set up like any other
InputSetupUnguarded(inputs) ==
    IF inputs = << >> THEN << >>
    ELSE LET mapping == Head(inputs)
             this ==
                 IF mapping.mode = "Analog"
                 THEN << Uint8(<< SET_PIN_MODE, mapping.pin, 2 >>),
                         Uint8(<< REPORT_ANALOG + ((mapping.pin - 14) % 16), 1 >>) >>
                 ELSE << Uint8(<< SET_PIN_MODE, mapping.pin, 0 >>),
                         Uint8(<< BitOr(REPORT_DIGITAL, mapping.pin \div 8), 1 >>) >>
         IN  this \o InputSetupUnguarded(Tail(inputs))

\* App.tsx:468-480
RECURSIVE InputSetup(_)
InputSetup(inputs) ==
    IF inputs = << >> THEN << >>
    ELSE LET mapping == Head(inputs)
             this ==
                 IF mapping.mode = "Analog"
                 THEN IF mapping.pin - 14 >= 0
                      THEN << Uint8(<< SET_PIN_MODE, mapping.pin, 2 >>),
                              Uint8(<< BitOr(REPORT_ANALOG, mapping.pin - 14), 1 >>) >>
                      ELSE << >>
                 ELSE << Uint8(<< SET_PIN_MODE, mapping.pin, 0 >>),
                         Uint8(<< BitOr(REPORT_DIGITAL, mapping.pin \div 8), 1 >>) >>
         IN  this \o InputSetup(Tail(inputs))

\* App.tsx:462-481: the commands a call writes, from the store of its closure
SetupCommands(store, firmataId) ==
    IF Has(store, firmataId)
    THEN OutputSetup(Obj(store, firmataId).outputs)
             \o InputSetup(Obj(store, firmataId).inputs)
    ELSE << >>

StatusUpdate(firmataId, status) ==
    Updater("plain", firmataId, "connectionStatus" :> status)

Without(f, k) == [j \in DOMAIN f \ {k} |-> f[j]]

\* the bridges of the store a connect or disconnect button belongs to
Bridges == { i \in 1..Len(appData) : appData[i].type = "firmata" }

Call(id, position, cmds) ==
    [id |-> id, pc |-> position, cmds |-> cmds, sent |-> 0, reading |-> FALSE,
     parser |-> IdleParser]

\* App.tsx:486-495: the catch block of call c
Catch(c) ==
    /\ pendingUpdates' = Append(pendingUpdates, StatusUpdate(calls[c].id, "error"))
    /\ firmataConnections' = Without(firmataConnections, calls[c].id)
    /\ revertTimers' = Append(revertTimers, calls[c].id)
    /\ calls' = [calls EXCEPT ![c].pc = "failed"]

\* App.tsx:483-484: the status is set and the read loop started; on a reader
\* that was cancelled its first read resolves as done and the loop exits
Connected(c, sent) ==
    /\ pendingUpdates' = Append(pendingUpdates, StatusUpdate(calls[c].id, "connected"))
    /\ calls' = [calls EXCEPT ![c].pc = "done", ![c].sent = sent,
                              ![c].reading = c \notin released]

\* the status set before the last setup write has resolved
ConnectedAtEarly(c, sent) == sent + 1 >= Len(calls[c].cmds)

\* App.tsx:464-483: whether the call has passed its last write
ConnectedAt(c, sent) == sent = Len(calls[c].cmds)

\* App.tsx:441-450: the handler up to its first await, as one of at most
\* limit events
ConnectFirmata(limit) ==
    /\ Quiescent
    /\ events < limit
    /\ events' = events + 1
    /\ \E i \in Bridges :
           LET id == appData[i].id
               c == Len(calls) + 1
           IN  /\ id \notin DOMAIN firmataConnections
               /\ IF hasSerial
                  THEN /\ calls' = Append(calls, Call(id, "requesting",
                                                      SetupCommands(appData, id)))
                       /\ pendingUpdates' = << StatusUpdate(id, "connecting") >>
                       /\ UNCHANGED << firmataConnections, revertTimers >>
                  ELSE /\ calls' = Append(calls, Call(id, "failed", << >>))
                       /\ pendingUpdates' = << StatusUpdate(id, "connecting"),
                                               StatusUpdate(id, "error") >>
                       /\ firmataConnections' = Without(firmataConnections, id)
                       /\ revertTimers' = Append(revertTimers, id)
    /\ UNCHANGED << appData, appDataRef, engineVars, blockVars, hasSerial,
                    digitalPortStates, closers, reports, statusHist, codec, effectVars >>

ConnectCall == ConnectFirmata(MaxEvents)

\* App.tsx:450: requestPort resolves
RequestResolve ==
    /\ Quiescent
    /\ \E c \in 1..Len(calls) :
           /\ calls[c].pc = "requesting"
           /\ calls' = [calls EXCEPT ![c].pc = "opening"]
    /\ UNCHANGED << appData, appDataRef, pendingUpdates, engineVars, blockVars,
                    events, hasSerial, firmataConnections, digitalPortStates,
                    closers, revertTimers, reports, statusHist, codec, effectVars >>

\* App.tsx:450: requestPort rejects
RequestReject ==
    /\ Quiescent
    /\ \E c \in 1..Len(calls) : calls[c].pc = "requesting" /\ Catch(c)
    /\ UNCHANGED << appData, appDataRef, engineVars, blockVars, events, hasSerial,
                    digitalPortStates, closers, reports, statusHist, codec, effectVars >>

\* App.tsx:451-466: open resolves; the connection is registered and the
\* first setup command written, or the status set when there is none
OpenResolve ==
    /\ Quiescent
    /\ \E c \in 1..Len(calls) :
           /\ calls[c].pc = "opening"
           /\ firmataConnections' = (calls[c].id :> c) @@ firmataConnections
           /\ digitalPortStates' =
                  (calls[c].id :> [port \in 0..15 |-> 0]) @@ digitalPortStates
           /\ IF ConnectedAt(c, 0)
              THEN Connected(c, 0)
              ELSE /\ calls' = [calls EXCEPT ![c].pc = "setup"]
                   /\ UNCHANGED pendingUpdates
    /\ UNCHANGED << appData, appDataRef, engineVars, blockVars, events, hasSerial,
                    closers, revertTimers, reports, statusHist, codec, effectVars >>

\* App.tsx:451: open rejects
OpenReject ==
    /\ Quiescent
    /\ \E c \in 1..Len(calls) : calls[c].pc = "opening" /\ Catch(c)
    /\ UNCHANGED << appData, appDataRef, engineVars, blockVars, events, hasSerial,
                    digitalPortStates, closers, reports, statusHist, codec, effectVars >>

\* App.tsx:466-483: a setup write resolves; the next is written, or the
\* status set after the last; a next write on a writer whose lock was
\* released rejects at once and the catch block runs
WriteResolve ==
    /\ Quiescent
    /\ \E c \in 1..Len(calls) :
           /\ calls[c].pc = "setup"
           /\ IF ConnectedAt(c, calls[c].sent + 1)
              THEN /\ Connected(c, calls[c].sent + 1)
                   /\ UNCHANGED << firmataConnections, revertTimers >>
              ELSE IF c \in released
              THEN Catch(c)
              ELSE /\ calls' = [calls EXCEPT ![c].sent = calls[c].sent + 1]
                   /\ UNCHANGED << pendingUpdates, firmataConnections,
                                   revertTimers >>
    /\ UNCHANGED << appData, appDataRef, engineVars, blockVars, events, hasSerial,
                    digitalPortStates, closers, reports, statusHist, codec,
                    effectVars >>

\* App.tsx:466-478: a setup write rejects
WriteReject ==
    /\ Quiescent
    /\ \E c \in 1..Len(calls) : calls[c].pc = "setup" /\ Catch(c)
    /\ UNCHANGED << appData, appDataRef, engineVars, blockVars, events, hasSerial,
                    digitalPortStates, closers, reports, statusHist, codec, effectVars >>

\* a timeout that sets disconnected whatever the status is
RevertsAlways(store, firmataId) == Has(store, firmataId)

\* App.tsx:491-492: whether the timeout finds the bridge still in error
Reverts(store, firmataId) ==
    /\ Has(store, firmataId)
    /\ Obj(store, firmataId).type = "firmata"
    /\ Obj(store, firmataId).connectionStatus = "error"

\* App.tsx:490-495: the 3000 ms timeout of a catch block fires
RevertTimeout ==
    /\ Quiescent
    /\ revertTimers # << >>
    /\ pendingUpdates' =
           IF Reverts(appDataRef, Head(revertTimers))
           THEN << StatusUpdate(Head(revertTimers), "disconnected") >>
           ELSE pendingUpdates
    /\ revertTimers' = Tail(revertTimers)
    /\ UNCHANGED << appData, appDataRef, engineVars, blockVars, events, hasSerial,
                    firmataConnections, digitalPortStates, calls, closers,
                    reports, statusHist, codec, effectVars >>

\* the chunks reader.read() resolves with: a digital report of port 1 with
\* bits 0 and 2 set, one of port 0 with bit 3 set, an analog report of
\* channel 0 at 10-bit full scale, the first two bytes of a report, one byte
Chunks ==
    { << 145, 5, 0 >>, << 144, 8, 0 >>, << 224, 127, 7 >>, << 145, 2 >>, << 0 >> }

\* the applies of a sequence of messages, and the record of each message
RECURSIVE Dispatch(_, _, _)
Dispatch(store, firmataId, messages) ==
    IF messages = << >> THEN << << >>, << >> >>
    ELSE LET writes == MessageWrites(store, firmataId, Head(messages))
             rest == Dispatch(store, firmataId, Tail(messages))
         IN  << writes \o rest[1],
                << [command |-> Head(messages).command,
                    pinOrPort |-> Head(messages).pinOrPort,
                    value |-> MessageValue(Head(messages).buffer),
                    issued |-> writes] >> \o rest[2] >>

\* App.tsx:412-433: a read of the loop resolves with a chunk
ReadChunk ==
    /\ Quiescent
    /\ \E c \in 1..Len(calls), chunk \in Chunks :
           /\ calls[c].reading
           /\ events < MaxEvents
           /\ LET fed == FeedBytes(calls[c].parser, chunk, << >>)
                  done == Dispatch(appDataRef, calls[c].id, fed[2])
              IN  /\ calls' = [calls EXCEPT ![c].parser = fed[1]]
                  /\ pendingUpdates' =
                         [j \in 1..Len(done[1]) |->
                             Updater("propagate", done[1][j].id, done[1][j].props)]
                  /\ reports' = reports \o done[2]
    /\ events' = events + 1
    /\ UNCHANGED << appData, appDataRef, engineVars, blockVars, hasSerial,
                    firmataConnections, digitalPortStates, closers, revertTimers,
                    statusHist, codec, effectVars >>

\* App.tsx:551-555: the handler up to its first await, as one of at most
\* limit events
DisconnectFirmata(limit) ==
    /\ Quiescent
    /\ events < limit
    /\ \E i \in Bridges :
           /\ appData[i].id \in DOMAIN firmataConnections
           /\ closers' = Append(closers, [id |-> appData[i].id,
                                          conn |-> firmataConnections[appData[i].id],
                                          pc |-> "closing"])
    /\ events' = events + 1
    /\ UNCHANGED << appData, appDataRef, pendingUpdates, engineVars, blockVars,
                    hasSerial, firmataConnections, digitalPortStates, calls,
                    revertTimers, reports, statusHist, codec, effectVars >>

DisconnectCall == DisconnectFirmata(MaxEvents)

\* App.tsx:555-564: the reader is cancelled, the port closed (or either
\* rejects) and the finally block runs
DisconnectFinish ==
    /\ Quiescent
    /\ \E k \in 1..Len(closers) :
           /\ closers[k].pc = "closing"
           /\ closers' = [closers EXCEPT ![k].pc = "closed"]
           /\ calls' = [calls EXCEPT ![closers[k].conn].reading = FALSE]
           /\ firmataConnections' = Without(firmataConnections, closers[k].id)
           /\ digitalPortStates' = Without(digitalPortStates, closers[k].id)
           /\ pendingUpdates' = << StatusUpdate(closers[k].id, "disconnected") >>
    /\ UNCHANGED << appData, appDataRef, engineVars, blockVars, events, hasSerial,
                    revertTimers, reports, statusHist, codec, effectVars >>

Digital(pin, targetId, property, min, max) ==
    InputMapping(pin, "Digital", targetId, property, R(min), R(max), 10)

\* <<inputs, outputs>> of the bridge: none; one Digital input per pin on
\* ports 1 and 0; and a list with two mappings on one pin, an Analog
\* mapping, an Analog mapping below pin 14 and a mapping without a target
BridgeMappings ==
    { << << >>, << >> >>,
      << << Digital(8, "cC", "x", 0, 100), Digital(9, "cC", "diametro", 10, 20),
            Digital(10, "cD", "x", 1, 2), Digital(3, "cD", "diametro", 5, 6) >>,
         << OutputMapping("cC", "x", 5, "PWM") >> >>,
      << << Digital(8, "cC", "x", 0, 100), Digital(8, "cD", "x", 30, 40),
            InputMapping(14, "Analog", "cD", "diametro", R(0), R(255), 10),
            InputMapping(2, "Analog", "cC", "diametro", R(0), R(255), 10),
            Digital(10, "", "", 0, 1) >>,
         << OutputMapping("cC", "x", 13, "Digital") >> >> }

\* the status a snapshot was saved with (App.tsx:78-84 saves the whole store)
SnapshotStatuses == { "disconnected", "connected" }

BridgeSnapshots ==
    { << Firmata(BridgeId, st, m[1], m[2]),
         Circle("cC", R(250), R(100)), Circle("cD", R(250), R(100)) >> :
        st \in SnapshotStatuses, m \in BridgeMappings }

BridgeInit ==
    /\ appData \in BridgeSnapshots
    /\ hasSerial \in BOOLEAN
    /\ codec = NoCodec
    /\ InitCommon
    /\ NoEffects

BridgeNext ==
    \/ ConnectCall
    \/ RequestResolve
    \/ RequestReject
    \/ OpenResolve
    \/ OpenReject
    \/ WriteResolve
    \/ WriteReject
    \/ RevertTimeout
    \/ ReadChunk
    \/ DisconnectCall
    \/ DisconnectFinish
    \/ BeginPropagate
    \/ PopStep
    \/ FinishPropagate
    \/ PlainUpdater

SpecBridge == BridgeInit /\ [][BridgeNext]_vars

-----------------------------------------------------------------------------
(* The effects that follow a render: the interval timers of the auto       *)
(* blocks (App.tsx:311-325) and the output re-encode sendFirmataData       *)
(* (App.tsx:499-548).  Both have appData.objects as their dependency, so   *)
(* they run after every render that committed a new store, with that store *)
(* in their closure.  A run of sendFirmataData is a process that waits at  *)
(* each writer.write.                                                      *)

\* App.tsx:514  `${firmata.id}-${index}`
Key(id, index) == << id, index >>

\* App.tsx:515  lastSentOutputValues.current[key], undefined before the first send
LastValue(last, key) == IF key \in DOMAIN last THEN last[key] ELSE Undef

\* App.tsx:521-522  (sourceShape as any).min ?? 0
OrElse(value, default) == IF value = Undef THEN default ELSE value

\* App.tsx:534-538
PortState(portState, pinInPort, digitalValue) ==
    IF digitalValue = 1
    THEN BitOr(portState, Shl(1, pinInPort))
    ELSE portState - BitAnd(portState, Shl(1, pinInPort))

\* App.tsx:540
DigitalCommand(portNumber, portState) ==
    Uint8(<< BitOr(DIGITAL_MESSAGE, portNumber), BitAnd(portState, 127),
             BitAnd(Shr(portState, 7), 127) >>)

\* an output mapping whose source is looked up without the guard of line 511
SourceFoundAlways(store, mapping) ==
    Truthy(mapping.sourceId) /\ Truthy(mapping.property)

\* App.tsx:508-511: the mapping names a source that the closure's store holds
SourceFound(store, mapping) ==
    /\ Truthy(mapping.sourceId)
    /\ Truthy(mapping.property)
    /\ Has(store, mapping.sourceId)

\* the source object of a mapping; find yields undefined for an absent id,
\* whose fields cannot be read
SourceOf(store, mapping) ==
    IF Has(store, mapping.sourceId) THEN Obj(store, mapping.sourceId)
    ELSE [id |-> mapping.sourceId, type |-> "undefined"]

Scanned(last, ports, at, bytes, outcome) ==
    [last |-> last, ports |-> ports, at |-> at, bytes |-> bytes,
     outcome |-> outcome]

RECURSIVE PassFrom(_, _, _, _, _)
\* App.tsx:507-543: the loop over the outputs of bridge id from position
\* index on, up to its next writer.write: the cache and the shadow registers
\* it leaves, and whether it ended, wrote (the position and the bytes) or
\* threw
PassFrom(store, id, index, last, ports) ==
    LET outputs == Obj(store, id).outputs
    IN  IF index > Len(outputs) THEN Scanned(last, ports, 0, << >>, "end")
        ELSE
        LET mapping == outputs[index]
            sourceShape == SourceOf(store, mapping)
            currentValue == Get(sourceShape, mapping.property)
            key == Key(id, index)
            sent == (key :> currentValue) @@ last
        IN  IF ~SourceFound(store, mapping)
            THEN PassFrom(store, id, index + 1, last, ports)
            ELSE IF sourceShape.type = "undefined"
            THEN Scanned(last, ports, index, << >>, "throw")
            ELSE IF currentValue = LastValue(last, key)
            THEN PassFrom(store, id, index + 1, last, ports)
            ELSE IF mapping.mode = "PWM"
            THEN Scanned(sent, ports, index,
                         PwmCommand(mapping.pin,
                                    PwmValue(currentValue,
                                             OrElse(Get(sourceShape, "min"), R(0)),
                                             OrElse(Get(sourceShape, "max"), R(1023)))),
                         "write")
            ELSE LET digitalValue == IF RLt(R(0), currentValue) THEN 1 ELSE 0
                     portNumber == mapping.pin \div 8
                     pinInPort == mapping.pin % 8
                     portState ==
                         PortState(IF id \in DOMAIN ports THEN ports[id][portNumber]
                                   ELSE 0, pinInPort, digitalValue)
                 IN  IF id \notin DOMAIN ports
                     THEN Scanned(sent, ports, index, << >>, "throw")
                     ELSE Scanned(sent, [ports EXCEPT ![id][portNumber] = portState],
                                  index, DigitalCommand(portNumber, portState),
                                  "write")

\* a run of sendFirmataData: its closure's store, the bridge and connection
\* it works on, the output it is at, the place of its pending write in the
\* history and its position
Pass(store, id, conn, at, w, position) ==
    [store |-> store, id |-> id, conn |-> conn, at |-> at, w |-> w,
     pc |-> position]

\* App.tsx:502-505: the bridge of the store is connected and has a connection
Sends(store) ==
    /\ Has(store, BridgeId)
    /\ Obj(store, BridgeId).type = "firmata"
    /\ Obj(store, BridgeId).connectionStatus = "connected"
    /\ BridgeId \in DOMAIN firmataConnections

\* pass p scanned from output index on, as PassFrom gives it
Scan(p, index) ==
    PassFrom(p.store, p.id, index, lastSentOutputValues, digitalPortStates)

\* a write is started unless the writer's lock was released, in which case
\* writer.write rejects at once
Writes(p, index) == Scan(p, index).outcome = "write" /\ p.conn \notin released

\* pass p after it has gone on from output index
Advanced(p, index) ==
    Pass(p.store, p.id, p.conn, Scan(p, index).at, Len(written) + 1,
         IF Scan(p, index).outcome = "end" THEN "done"
         ELSE IF Writes(p, index) THEN "writing" ELSE "thrown")

\* what pass p leaves behind when it goes on from output index
Advance(p, index) ==
    /\ lastSentOutputValues' = Scan(p, index).last
    /\ digitalPortStates' = Scan(p, index).ports
    /\ written' = IF Writes(p, index)
                  THEN Append(written, [conn |-> p.conn,
                                        bytes |-> Scan(p, index).bytes])
                  ELSE written

\* the auto blocks with instructions, which the timer effect gives an interval
AutoBlocks(store) ==
    { store[i].id : i \in { j \in 1..Len(store) :
          /\ store[j].type = "programming"
          /\ store[j].executionMode = "auto"
          /\ Len(store[j].linhas) > 0 } }

\* the ticks each block of store has waited, a block new to the store none
Waited(store) ==
    [id \in AutoBlocks(store) |-> IF id \in DOMAIN waited THEN waited[id] ELSE 0]

\* the effects have run for the store loaded at start-up
EffectsInit ==
    /\ rendered = Rendered(TRUE, appData)
    /\ timers = [id \in AutoBlocks(appData) |-> 0]
    /\ waited = [id \in AutoBlocks(appData) |-> 0]

\* App.tsx:311-325, 499-548: the effects run for the store just rendered: the
\* intervals are cleared and set anew, and sendFirmataData runs up to its
\* first write
EffectRun ==
    /\ pc = "idle"
    /\ pendingUpdates = << >>
    /\ EffectDue
    /\ rendered' = Rendered(TRUE, appData)
    /\ timers' = [id \in AutoBlocks(appData) |-> 0]
    /\ waited' = Waited(appData)
    /\ IF Sends(appData)
       THEN LET p == Pass(appData, BridgeId, firmataConnections[BridgeId], 0, 0,
                          "writing")
            IN  /\ Advance(p, 1)
                /\ passes' = Append(passes, Advanced(p, 1))
       ELSE UNCHANGED << passes, lastSentOutputValues, digitalPortStates, written >>
    /\ UNCHANGED << appData, appDataRef, pendingUpdates, engineVars, blockVars,
                    events, hasSerial, firmataConnections, calls, closers,
                    revertTimers, reports, statusHist, codec, now, released,
                    faults >>

\* the pass whose write is the oldest pending one of its connection
Oldest(k) ==
    \A j \in 1..Len(passes) :
        passes[j].pc = "writing" /\ passes[j].conn = passes[k].conn
            => passes[k].w <= passes[j].w

\* App.tsx:527, 541: the write a pass awaits resolves and the pass goes on
PassWriteResolve ==
    /\ Quiescent
    /\ \E k \in 1..Len(passes) :
           /\ passes[k].pc = "writing"
           /\ Oldest(k)
           /\ Advance(passes[k], passes[k].at + 1)
           /\ passes' = [passes EXCEPT ![k] = Advanced(passes[k], passes[k].at + 1)]
    /\ UNCHANGED << appData, appDataRef, pendingUpdates, engineVars, blockVars,
                    events, hasSerial, firmataConnections, calls, closers,
                    revertTimers, reports, statusHist, codec, rendered, timerVars,
                    released, faults >>

Fault(conn, kind) == [conn |-> conn, kind |-> kind]

\* App.tsx:527, 541: the write a pass awaits rejects; nothing catches it
PassWriteReject ==
    /\ Quiescent
    /\ \E k \in 1..Len(passes) :
           /\ passes[k].pc = "writing"
           /\ Oldest(k)
           /\ passes' = [passes EXCEPT ![k].pc = "thrown"]
           /\ faults' = faults \cup { Fault(passes[k].conn, "write") }
    /\ UNCHANGED << appData, appDataRef, pendingUpdates, engineVars, blockVars,
                    events, bridgeVars, statusHist, codec, rendered, timerVars,
                    lastSentOutputValues, released, written >>

-----------------------------------------------------------------------------
(* deleteShape (App.tsx:328-341) *)

\* App.tsx:331  prevData.objects.filter(shape => shape.id !== shapeId)
FilterOut(store, shapeId) == SelectSeq(store, LAMBDA shape : shape.id # shapeId)

\* App.tsx:328-341: the handler queues the removal from the store and from
\* the execution state
DeleteShape(ids, limit) ==
    /\ Quiescent
    /\ events < limit
    /\ \E shapeId \in ids :
           /\ Has(appData, shapeId)
           /\ pendingUpdates' = << Updater("delete", shapeId, NoProps),
                                   Updater("forget", shapeId, NoProps) >>
    /\ events' = events + 1
    /\ UNCHANGED << appData, appDataRef, engineVars, blockVars, bridgeVars,
                    statusHist, codec, effectVars >>

\* App.tsx:329-332: the setAppData updater of deleteShape
DeleteUpdater ==
    /\ pc = "idle"
    /\ pendingUpdates # << >>
    /\ Head(pendingUpdates).kind = "delete"
    /\ LET store == FilterOut(appData, Head(pendingUpdates).id)
       IN  /\ appData' = store
           /\ appDataRef' = RefAfter(store, Tail(pendingUpdates))
           /\ statusHist' = Track(store)
    /\ pendingUpdates' = Tail(pendingUpdates)
    /\ UNCHANGED << engineVars, blockVars, events, bridgeVars, codec, effectVars >>

\* App.tsx:336-340: the setExecutionState updater of deleteShape
ForgetUpdater ==
    /\ pc = "idle"
    /\ pendingUpdates # << >>
    /\ Head(pendingUpdates).kind = "forget"
    /\ executionState' = Without(executionState, Head(pendingUpdates).id)
    /\ pendingUpdates' = Tail(pendingUpdates)
    /\ appDataRef' = RefAfter(appData, Tail(pendingUpdates))
    /\ UNCHANGED << appData, engineVars, triggerCooldowns, pendingWrites, visited,
                    stepCalls, events, bridgeVars, statusHist, codec, effectVars >>

-----------------------------------------------------------------------------
(* The interval timers in time.  The clock advances in ticks that are      *)
(* longer than the 100 ms cooldown; autoInterval is a number of ticks.  A  *)
(* timer that is due fires before the clock advances, and so do the        *)
(* zero-delay timeouts and the cooldown timeouts.                          *)

\* ticks of the clock per behaviour
MaxTicks == 6

\* App.tsx:148-159: an auto block with its interval
TimedBlock(id, autoInterval, linhas) ==
    ("autoInterval" :> autoInterval) @@ Programming(id, "auto", Null, linhas)

\* App.tsx:317: the interval the timer of block id was set with
IntervalOf(id) == Obj(rendered.store, id).autoInterval

\* a timer is due
Due(id) == timers[id] >= IntervalOf(id)

\* App.tsx:315-317: the interval of a block fires and runs on
TimerFire ==
    /\ Quiescent
    /\ \E id \in DOMAIN timers :
           /\ Due(id)
           /\ StepCall(id)
           /\ timers' = [timers EXCEPT ![id] = 0]
           /\ waited' = [waited EXCEPT ![id] = 0]
    /\ UNCHANGED << appData, appDataRef, engineVars, executionState,
                    pendingWrites, visited, events, bridgeVars, statusHist, codec,
                    rendered, now, outputVars >>

\* time passes: nothing is due and nothing is left to run at this instant
Tick ==
    /\ Quiescent
    /\ now < MaxTicks
    /\ pendingWrites = << >>
    /\ triggerCooldowns = {}
    /\ \A id \in DOMAIN timers : ~Due(id)
    /\ now' = now + 1
    /\ timers' = [id \in DOMAIN timers |-> timers[id] + 1]
    /\ waited' = [id \in DOMAIN waited |-> waited[id] + 1]
    /\ UNCHANGED << appData, appDataRef, pendingUpdates, engineVars, blockVars,
                    events, bridgeVars, statusHist, codec, rendered, outputVars >>

\* two auto blocks of different intervals, a slider with a bound target, a
\* slave and a manual block it triggers, and a circle
TimerSnapshots ==
    { << TimedBlock("pA", 2, << Linha("sA", "value", R(5), 1),
                                Linha("", "", R(0), 2) >>),
         TimedBlock("pB", 3, << Linha("cC", "diametro", R(9), 1) >>),
         Slider("sA", R(0), R(0), R(10), "cC", "x", Null),
         Slider("sB", R(0), R(0), R(20), "", "", "sA"),
         Programming("pM", "manual", "sA", << Linha("cC", "diametro", R(1), 1) >>),
         Circle("cC", R(250), R(100)) >> }

\* a write to an object no block is bound to
TimerInputs == { Entry("cC", "x" :> R(7)) }

\* the blocks the user deletes
TimerDeletes == { "pA", "pB" }

TimerInit ==
    /\ appData \in TimerSnapshots
    /\ hasSerial = TRUE
    /\ codec = NoCodec
    /\ InitCommon
    /\ EffectsInit

TimerNext ==
    \/ Tick
    \/ TimerFire
    \/ EffectRun
    \/ UserApply(TimerInputs, MaxEvents)
    \/ DeleteShape(TimerDeletes, MaxEvents)
    \/ DeleteUpdater
    \/ ForgetUpdater
    \/ BeginPropagate
    \/ PopStep
    \/ FinishPropagate
    \/ ExecUpdater
    \/ WriteTimeout
    \/ PlainUpdater
    \/ CooldownExpire

SpecTimer == TimerInit /\ [][TimerNext]_vars

-----------------------------------------------------------------------------
(* The bridge session with its output re-encode: the read loop's failure   *)
(* (App.tsx:434-437), handleDisconnectFirmata await by await               *)
(* (App.tsx:551-566) and the deletion of the bridge.                       *)

\* App.tsx:412, 434-437: a read of the loop rejects; the loop logs and exits
ReadReject ==
    /\ Quiescent
    /\ \E c \in 1..Len(calls) :
           /\ calls[c].reading
           /\ calls' = [calls EXCEPT ![c].reading = FALSE]
           /\ faults' = faults \cup { Fault(c, "read") }
    /\ UNCHANGED << appData, appDataRef, pendingUpdates, engineVars, blockVars,
                    events, hasSerial, firmataConnections, digitalPortStates,
                    closers, revertTimers, reports, statusHist, codec, rendered,
                    timerVars, passes, lastSentOutputValues, released, written >>

\* App.tsx:560-564: the finally block of disconnect k
DisconnectFinally(k) ==
    /\ closers' = [closers EXCEPT ![k].pc = "closed"]
    /\ firmataConnections' = Without(firmataConnections, closers[k].id)
    /\ digitalPortStates' = Without(digitalPortStates, closers[k].id)
    /\ pendingUpdates' = << StatusUpdate(closers[k].id, "disconnected") >>

\* App.tsx:555-557: reader.cancel() resolves: the pending read of the loop
\* resolves as done and the loop exits, the writer's lock is released and
\* port.close() is called
DisconnectCancelled ==
    /\ Quiescent
    /\ \E k \in 1..Len(closers) :
           /\ closers[k].pc = "closing"
           /\ closers' = [closers EXCEPT ![k].pc = "porting"]
           /\ calls' = [calls EXCEPT ![closers[k].conn].reading = FALSE]
           /\ released' = released \cup { closers[k].conn }
    /\ UNCHANGED << appData, appDataRef, pendingUpdates, engineVars, blockVars,
                    events, hasSerial, firmataConnections, digitalPortStates,
                    revertTimers, reports, statusHist, codec, rendered, timerVars,
                    passes, lastSentOutputValues, written, faults >>

\* App.tsx:555, 558-564: reader.cancel() rejects, as it does on a stream a
\* read has failed on: the catch block logs and the finally block runs
DisconnectCancelFailed ==
    /\ Quiescent
    /\ \E k \in 1..Len(closers) :
           /\ closers[k].pc = "closing"
           /\ Fault(closers[k].conn, "read") \in faults
           /\ DisconnectFinally(k)
    /\ UNCHANGED << appData, appDataRef, engineVars, blockVars, events, hasSerial,
                    calls, revertTimers, reports, statusHist, codec, effectVars >>

\* App.tsx:557-564: port.close() resolves or rejects and the finally block runs
DisconnectClosed ==
    /\ Quiescent
    /\ \E k \in 1..Len(closers) :
           /\ closers[k].pc = "porting"
           /\ DisconnectFinally(k)
    /\ UNCHANGED << appData, appDataRef, engineVars, blockVars, events, hasSerial,
                    calls, revertTimers, reports, statusHist, codec, effectVars >>

\* a bridge with a PWM output fed by a slider, a Digital output fed by a
\* circle and a Digital input, disconnected as the inspector creates it
SessionSnapshots ==
    { << Firmata(BridgeId, "disconnected",
                 << Digital(8, "cC", "diametro", 10, 20) >>,
                 outputs),
         Slider("sA", R(0), R(0), R(10), "", "", Null),
         Circle("cC", R(250), R(100)) >> :
        outputs \in { << OutputMapping("sA", "value", 5, "PWM"),
                         OutputMapping("cC", "x", 13, "Digital") >>,
                      << OutputMapping("sA", "value", 5, "PWM"),
                         OutputMapping("sA", "value", 10, "Digital"),
                         OutputMapping("cC", "x", 13, "Digital") >> } }

SessionInputs == { Entry("sA", "value" :> R(5)), Entry("cC", "x" :> R(0)) }

SessionInit ==
    /\ appData \in SessionSnapshots
    /\ hasSerial = TRUE
    /\ codec = NoCodec
    /\ InitCommon
    /\ EffectsInit

SessionNext ==
    \/ ConnectCall
    \/ RequestResolve
    \/ OpenResolve
    \/ OpenReject
    \/ WriteResolve
    \/ RevertTimeout
    \/ ReadChunk
    \/ ReadReject
    \/ DisconnectCall
    \/ DisconnectCancelled
    \/ DisconnectCancelFailed
    \/ DisconnectClosed
    \/ UserApply(SessionInputs, MaxEvents)
    \/ DeleteShape({ BridgeId }, MaxEvents)
    \/ DeleteUpdater
    \/ ForgetUpdater
    \/ EffectRun
    \/ PassWriteResolve
    \/ PassWriteReject
    \/ BeginPropagate
    \/ PopStep
    \/ FinishPropagate
    \/ PlainUpdater

SpecSession == SessionInit /\ [][SessionNext]_vars

-----------------------------------------------------------------------------
(* Dangling bindings and unparseable literals.  A store in which every     *)
(* kind of binding names an id the store does not hold ("zz", "yy"), next  *)
(* to bindings that are in order, and a switch whose literals parseFloat   *)
(* reads as a number, reads a prefix of, or cannot read.                   *)

\* <<valueOn, valueOff>> of the switch
InertLiterals ==
    { << << "o", "n" >>, << >> >>, << << "1", "x" >>, << "-" >> >>,
      << << "." >>, << "0" >> >> }

InertSnapshots ==
    { << Slider("sA", R(0), R(0), R(10), "zz", "x", "yy"),
         Slider("sB", R(0), R(0), R(20), "", "", "sA"),
         Button("bV", "cC", "x", l[1], l[2], R(0)),
         Circle("cC", R(250), R(100)),
         Programming("pM", "manual", "zz", << Linha("cC", "diametro", R(1), 1) >>),
         Programming("pA", "auto", Null,
                     << Linha("zz", "x", R(3), 1), Linha("cC", "diametro", R(9), 2) >>),
         Firmata(BridgeId, "disconnected",
                 << Digital(8, "zz", "x", 0, 100) >>,
                 << OutputMapping("zz", "x", 13, "Digital"),
                    OutputMapping("sA", "value", 5, "PWM") >>) >> :
        l \in InertLiterals }

\* edits of the slider and the switch, and a write to an id the store lacks
InertInputs ==
    { Entry("sA", "value" :> R(5)), Entry("bV", "currentState" :> R(1)),
      Entry("bV", "currentState" :> R(0)), Entry("zz", "x" :> R(7)) }

InertInit ==
    /\ appData \in InertSnapshots
    /\ hasSerial = TRUE
    /\ codec = NoCodec
    /\ InitCommon
    /\ EffectsInit

InertNext ==
    \/ UserApply(InertInputs, MaxEvents)
    \/ AutoTimerFire
    \/ ConnectCall
    \/ RequestResolve
    \/ OpenResolve
    \/ WriteResolve
    \/ ReadChunk
    \/ EffectRun
    \/ PassWriteResolve
    \/ BeginPropagate
    \/ PopStep
    \/ FinishPropagate
    \/ ExecUpdater
    \/ WriteTimeout
    \/ PlainUpdater
    \/ CooldownExpire

SpecInert == InertInit /\ [][InertNext]_vars

-----------------------------------------------------------------------------
(* The manual triggers of a traversal (App.tsx:291-304) on a store with    *)
(* manual blocks triggered by the root, by a target, by a slave and by an  *)
(* object no write reaches, two blocks sharing a trigger, and an auto      *)
(* block that still carries a trigger id.                                  *)

OneLine == << Linha("cD", "diametro", R(7), 1) >>

TriggerSnapshots ==
    { << Slider("sA", R(0), R(0), R(10), at[1], at[2], Null),
         Slider("sB", R(0), R(0), R(20), "", "", "sA"),
         Circle("cC", R(250), R(100)),
         Circle("cD", R(250), R(100)),
         Programming("pR", "manual", "sA", OneLine),
         Programming("pS", "manual", "sB", OneLine),
         Programming("pT", "manual", "cC", OneLine),
         Programming("pU", "manual", "cC", OneLine),
         Programming("pN", "manual", "cD", OneLine),
         Programming("pA", "auto", "sA", OneLine) >> :
        at \in { << "cC", "x" >>, << "sB", "value" >> } }

\* a slider moved, a slider dragged on the canvas, a circle moved
TriggerInputs ==
    { Entry("sA", "value" :> R(5)), Entry("sA", "x" :> R(300)),
      Entry("cC", "x" :> R(7)) }

TriggerInit ==
    /\ appData \in TriggerSnapshots
    /\ hasSerial = TRUE
    /\ codec = NoCodec
    /\ InitCommon
    /\ NoEffects

TriggerNext ==
    \/ UserApply(TriggerInputs, MaxEvents)
    \/ BeginPropagate
    \/ PopStep
    \/ FinishPropagate
    \/ ExecUpdater
    \/ WriteTimeout
    \/ PlainUpdater
    \/ CooldownExpire

SpecTrigger == TriggerInit /\ [][TriggerNext]_vars

-----------------------------------------------------------------------------
(* Stores with a cycle: two sliders inheriting from each other, two        *)
(* sliders bound to each other's value, two switches bound to each other's *)
(* currentState.                                                           *)

\* <<min, max>> of the sliders: a range and a single point
CycleRanges == { << R(0), R(10) >>, << R(0), R(20) >>, << R(4), R(4) >> }

\* sliders sA and sB that inherit from each other; sA may drive a circle
InheritanceCycles ==
    { << Slider("sA", R(0), ar[1], ar[2], at[1], at[2], "sB"),
         Slider("sB", bv, br[1], br[2], "", "", "sA"),
         Button("bV", "cC", "x", << "1" >>, << "0" >>, R(0)),
         Button("bW", "cC", "x", << "1" >>, << "0" >>, R(0)),
         Circle("cC", R(250), R(100)) >> :
        ar \in CycleRanges, br \in CycleRanges, bv \in { R(0), R(7) },
        at \in { << "", "" >>, << "cC", "x" >> } }

\* sliders bound to each other's value, switches to each other's currentState
TargetCycles ==
    { << Slider("sA", R(0), R(0), R(10), "sB", "value", Null),
         Slider("sB", R(0), R(0), R(20), "sA", "value", Null),
         Button("bV", "bW", "currentState", << "1" >>, << "0" >>, R(0)),
         Button("bW", "bV", "currentState", << "1" >>, << "0" >>, R(0)),
         Circle("cC", R(250), R(100)) >> }

CycleInputs ==
    { Entry("sA", "value" :> R(5)), Entry("sA", "value" :> R(4)),
      Entry("bV", "currentState" :> R(1)), Entry("sA", "x" :> R(300)) }

CycleInit ==
    /\ appData \in InheritanceCycles \cup TargetCycles
    /\ hasSerial = TRUE
    /\ codec = NoCodec
    /\ InitCommon
    /\ NoEffects

CycleNext ==
    \/ UserApply(CycleInputs, MaxEvents)
    \/ BeginPropagate
    \/ PopStep
    \/ FinishPropagate

SpecCycle == CycleInit /\ [][CycleNext]_vars

-----------------------------------------------------------------------------
(* A bridge that is connected, disconnected and connected again while its  *)
(* sources keep their values.  Next to the bridge of the session there is   *)
(* one whose pins lie above those of a small board: a PWM output on pin 16  *)
(* and an Analog input on pin 30; the inspector takes any number as a pin   *)
(* (PropertiesPanel.tsx:792, 853).                                          *)

\* connects and disconnects of one run
MaxSessionEvents == 3

ReconnectSnapshots ==
    SessionSnapshots \cup
    { << Firmata(BridgeId, "disconnected",
                 << InputMapping(30, "Analog", "cC", "diametro", R(0), R(255), 10),
                    Digital(8, "cC", "diametro", 10, 20) >>,
                 << OutputMapping("sA", "value", 16, "PWM"),
                    OutputMapping("cC", "x", 13, "Digital") >>),
         Slider("sA", R(0), R(0), R(10), "", "", Null),
         Circle("cC", R(250), R(100)) >> }

ReconnectInit ==
    /\ appData \in ReconnectSnapshots
    /\ hasSerial = TRUE
    /\ codec = NoCodec
    /\ InitCommon
    /\ EffectsInit

ReconnectNext ==
    \/ ConnectFirmata(MaxSessionEvents)
    \/ RequestResolve
    \/ OpenResolve
    \/ WriteResolve
    \/ DisconnectFirmata(MaxSessionEvents)
    \/ DisconnectCancelled
    \/ DisconnectClosed
    \/ EffectRun
    \/ PassWriteResolve
    \/ PlainUpdater

SpecReconnect == ReconnectInit /\ [][ReconnectNext]_vars

-----------------------------------------------------------------------------
(* The decode side byte by byte: the bytes of the transport are fed to the *)
(* parser of one connection (App.tsx:415-433) and each message it           *)
(* dispatches is decoded by processFirmataMessage (App.tsx:377-407).  The   *)
(* parser state belongs to the connection and is kept from chunk to chunk.  *)

\* bytes fed in one run
MaxBytes == 5

\* payload bytes that make 0, 7, the 10-bit, 12-bit and 14-bit full scales;
\* a digital report of port 1, analog reports of channels 0 and 5, and the
\* start of a system-exclusive message, which the parser does not handle
StreamBytes == { 0, 7, 31, 127, 145, 224, 229, 240 }

\* a bridge with a 10-bit Analog input on channel 0, a 12-bit Analog input
\* on channel 5 whose range runs downwards, and a Digital input on pin 8
DecodeStores ==
    { << Firmata(BridgeId, "connected",
                 << InputMapping(14, "Analog", "cC", "x", R(0), R(100), 10),
                    InputMapping(19, "Analog", "cC", "diametro", R(20), R(10), 12),
                    Digital(8, "cD", "x", 0, 100) >>,
                 << >>),
         Circle("cC", R(250), R(100)), Circle("cD", R(250), R(100)) >> }

\* the transport of a connection: its parser, the bytes fed to it so far
\* and the messages it dispatched, each with the writes it led to
Stream(parser, stream, messages) ==
    [stage |-> "stream", parser |-> parser, stream |-> stream,
     messages |-> messages]

\* App.tsx:415-433, 377-407: the loop body for one byte
FeedStream ==
    /\ codec.stage = "stream"
    /\ Len(codec.stream) < MaxBytes
    /\ \E byte \in StreamBytes :
           LET fed == FeedByte(codec.parser, byte)
               done == [j \in 1..Len(fed[2]) |->
                           [command |-> fed[2][j].command,
                            pinOrPort |-> fed[2][j].pinOrPort,
                            buffer |-> fed[2][j].buffer,
                            issued |-> MessageWrites(appDataRef, BridgeId,
                                                     fed[2][j])]]
           IN  codec' = Stream(fed[1], Append(codec.stream, byte),
                               codec.messages \o done)
    /\ UNCHANGED << appData, appDataRef, pendingUpdates, engineVars, blockVars,
                    events, bridgeVars, statusHist, effectVars >>

DecodeInit ==
    /\ appData \in DecodeStores
    /\ hasSerial = TRUE
    /\ codec = Stream(IdleParser, << >>, << >>)
    /\ InitCommon
    /\ NoEffects

DecodeNext == FeedStream

SpecDecode == DecodeInit /\ [][DecodeNext]_vars

-----------------------------------------------------------------------------
(* Claims about the propagation engine *)

\* the last traversal has returned and nothing has written the store since
Settled == pc = "idle" /\ root # NoRoot

\* writes the last traversal merged into property p of object id
WritesTo(id, p) ==
    Cardinality({ i \in 1..Len(applied) :
                    applied[i].id = id /\ p \in DOMAIN applied[i].props })

\* the last traversal was apply(S, {value: v}) on a slider S of the store
RootIsSliderValue ==
    /\ Settled
    /\ "value" \in DOMAIN root.props
    /\ Has(appData, root.id)
    /\ Obj(appData, root.id).type = "slider"

\* object o has a bound target that exists in the store
Bound(o) ==
    /\ Truthy(o.targetId)
    /\ Truthy(o.targetProperty)
    /\ Has(appData, o.targetId)

TargetValue(o) == Get(Obj(appData, o.targetId), o.targetProperty)

\* C1 as stated: for every slider S with a bound target T.P, after
\* apply(S, {value: v}) has settled, T.P equals v.
C1_AsStated ==
    RootIsSliderValue /\ Bound(Obj(appData, root.id))
        => TargetValue(Obj(appData, root.id)) = root.props["value"]

\* C1 amended: after apply(S, {value: v}) has settled, T.P equals v unless
\* the same traversal merged a further write into T.P (which can only be a
\* write of value or currentState, the two keys exempt from the visited check).
C1_TargetReceivesValue ==
    /\ RootIsSliderValue /\ Bound(Obj(appData, root.id))
       /\ WritesTo(Obj(appData, root.id).targetId,
                   Obj(appData, root.id).targetProperty) = 1
           => TargetValue(Obj(appData, root.id)) = root.props["value"]
    /\ RootIsSliderValue /\ Bound(Obj(appData, root.id))
       /\ Obj(appData, root.id).targetProperty \notin { "value", "currentState" }
           => WritesTo(Obj(appData, root.id).targetId,
                       Obj(appData, root.id).targetProperty) = 1

C1_Witness ==
    /\ RootIsSliderValue /\ Bound(Obj(appData, root.id))
    /\ Obj(appData, root.id).targetProperty = "x"
    /\ TargetValue(Obj(appData, root.id)) = R(5)
    /\ Len(applied) >= 3

\* the sliders of the store that inherit from slider id
SlavesOf(id) ==
    { i \in 1..Len(appData) :
        appData[i].type = "slider" /\ appData[i].inheritedSliderId = id }

\* L.value == L.min + (v - M.min)/(M.max - M.min) * (L.max - L.min), and
\* L.value == L.min when M.max == M.min
SlaveFollows(M, L, v) ==
    IF M.max = M.min
    THEN L.value = L.min
    ELSE RMul(RSub(L.value, L.min), RSub(M.max, M.min))
            = RMul(RSub(v, M.min), RSub(L.max, L.min))

TargetedInTraversal(o) ==
    \E i \in 1..Len(applied) :
        /\ Has(appData, applied[i].id)
        /\ Exempt(applied[i].props)
        /\ Obj(appData, applied[i].id).type \in { "slider", "button" }
        /\ Obj(appData, applied[i].id).targetId = o.id
        /\ Obj(appData, applied[i].id).targetProperty = "value"

RangeWritten(id) == WritesTo(id, "min") + WritesTo(id, "max") > 0

RootIsSwitchState ==
    /\ Settled
    /\ "currentState" \in DOMAIN root.props
    /\ Has(appData, root.id)
    /\ Obj(appData, root.id).type = "button"

\* the number the switch sends: valueOn parsed when currentState is 1,
\* valueOff parsed otherwise
Literal(w) == ParseFloat(IF w.currentState = R(1) THEN w.valueOn ELSE w.valueOff)

\* C3 as stated: for a switch bound to T.P, after apply(switch,
\* {currentState: s}) has settled T.P is the parsed number of valueOn when
\* s is 1 and of valueOff otherwise (1 and 0 for valueOn="1", valueOff="0").
C3_AsStated ==
    RootIsSwitchState /\ Bound(Obj(appData, root.id))
       /\ Literal(Obj(appData, root.id)) # NaN
        => TargetValue(Obj(appData, root.id)) = Literal(Obj(appData, root.id))

\* C3 amended: the same, unless the same traversal merged a further write
\* into T.P after the switch's own.
C3_SwitchDrivesTarget ==
    RootIsSwitchState /\ Bound(Obj(appData, root.id))
       /\ Literal(Obj(appData, root.id)) # NaN
       /\ WritesTo(Obj(appData, root.id).targetId,
                   Obj(appData, root.id).targetProperty) = 1
       /\ WritesTo(root.id, "currentState") = 1
        => /\ TargetValue(Obj(appData, root.id)) = Literal(Obj(appData, root.id))
           /\ Obj(appData, root.id).currentState = R(1)
                  => TargetValue(Obj(appData, root.id)) = R(1)
           /\ Obj(appData, root.id).currentState = R(0)
                  => TargetValue(Obj(appData, root.id)) = R(0)

C3_Witness ==
    /\ RootIsSwitchState /\ Bound(Obj(appData, root.id))
    /\ Obj(appData, root.id).currentState = R(1)
    /\ TargetValue(Obj(appData, root.id)) = R(1)
    /\ WritesTo(Obj(appData, root.id).targetId,
                Obj(appData, root.id).targetProperty) = 1

\* C10: apply runs its whole worklist inside one store transition: while a
\* traversal is running no other apply starts, no handler or timer callback
\* runs, and the store and the ref that observers read do not change until
\* the step at which the worklist is empty, which installs the traversal's
\* final working copy.
C10_TraversalIsOneTransition ==
    [][pc = "traversing" =>
          /\ root' = root
          /\ UNCHANGED << executionState, pendingWrites, events >>
          /\ IF updateQueue # << >>
             THEN UNCHANGED << appData, appDataRef, pendingUpdates, triggerCooldowns >>
             ELSE /\ appData' = objects
                  /\ appDataRef' \in { appDataRef, objects }
                  /\ pc' = "idle"]_vars

\* a traversal whose working copy has the root write and whose worklist still
\* holds a downstream write, while the store observers read is unchanged
C10_Witness ==
    /\ pc = "traversing"
    /\ Len(applied) = 1
    /\ Len(updateQueue) >= 2
    /\ objects # appData
    /\ appDataRef = appData

-----------------------------------------------------------------------------
(* Claims about the sequenced block *)

\* the order fields are exactly 1..N in list position order
Dense(linhas) == \A j \in 1..Len(linhas) : linhas[j].ordem = j

\* what an instruction does, apart from its order
Payload(line) == << line.targetObjectId, line.property, line.value >>

\* the instruction lists a handler has just issued, each with the list of the
\* block it replaces: << old, new >>
IssuedLists ==
    { << Obj(appData, pendingUpdates[j].id).linhas, pendingUpdates[j].props["linhas"] >> :
        j \in { k \in 1..Len(pendingUpdates) :
                  /\ "linhas" \in DOMAIN pendingUpdates[k].props
                  /\ Has(appData, pendingUpdates[k].id) } }

\* new is old without the instruction at position k, the rest in their order
RemovedAt(old, new, k) ==
    /\ Len(new) = Len(old) - 1
    /\ \A j \in 1..Len(new) :
           Payload(new[j]) = Payload(old[IF j < k THEN j ELSE j + 1])

\* C4: after any sequence of addProgrammingLine and deleteProgrammingLine
\* (and row edits) on a block, the instructions' order fields are exactly
\* 1..N in list position order, in the store and in every list a handler
\* issues; a list issued by deleting from an N-instruction block has orders
\* exactly 1..N-1 and the remaining instructions in their original relative
\* order, and a list issued by adding keeps the old instructions and ends
\* with order N+1.
C4_OrdersDense ==
    /\ \A i \in SelectedBlocks : Dense(appData[i].linhas)
    /\ \A io \in IssuedLists :
           /\ Dense(io[2])
           /\ Len(io[2]) < Len(io[1])
                  => \E k \in 1..Len(io[1]) : RemovedAt(io[1], io[2], k)
           /\ Len(io[2]) > Len(io[1])
                  => /\ SubSeq(io[2], 1, Len(io[1])) = io[1]
                     /\ io[2][Len(io[2])].ordem = Len(io[1]) + 1

\* the second of three instructions is deleted: the third is now the second
C4_Witness ==
    \E io \in IssuedLists :
        /\ Len(io[1]) = 3
        /\ RemovedAt(io[1], io[2], 2)
        /\ Payload(io[2][2]) = Payload(ThreeLines[3])
        /\ io[2][2].ordem = 2

\* a block stepped after an instruction was deleted and another added
C4_WitnessAfterEdits ==
    /\ Quiescent
    /\ events = 2
    /\ \E i \in SelectedBlocks :
           /\ Len(appData[i].linhas) = 3
           /\ Payload(appData[i].linhas[3]) = << "", "", R(0) >>
           /\ appData[i].linhas[3].ordem = 3
           /\ Payload(appData[i].linhas[1]) = Payload(ThreeLines[2])

\* the orders 1, 2, ..., N, 1, 2, ... of the first n steps
Cycle(n, N) == [j \in 1..n |-> ((j - 1) % N) + 1]

StepBlocks ==
    { i \in 1..Len(appData) :
        appData[i].type = "programming" /\ Len(appData[i].linhas) > 0 }

\* C5 as stated: once N calls of step on a block of N instructions have run,
\* the orders 1..N have been visited once each, and once N+1 calls have run
\* order 1 has been visited again.
C5_AsStated ==
    Quiescent =>
        \A i \in StepBlocks :
            LET N == Len(appData[i].linhas)
                id == appData[i].id
            IN  /\ CallsOf(id) = N => VisitedOf(id) = Cycle(N, N)
                /\ CallsOf(id) = N + 1 => VisitedOf(id) = Cycle(N + 1, N)

\* C5 amended: the calls of step that are made while the block is not under
\* cooldown visit the orders 1, 2, ..., N, 1, ... in turn: the first N of
\* them visit 1..N once each and the (N+1)th revisits 1; each of them sets
\* the cursor to (currentOrder mod N) + 1; a call made under cooldown visits
\* nothing.
C5_StepsCycle ==
    \A i \in StepBlocks :
        LET N == Len(appData[i].linhas)
            id == appData[i].id
            v == VisitedOf(id)
        IN  /\ v = Cycle(Len(v), N)
            /\ \A j \in 1..Len(v) :
                   v[j] = ((IF j = 1 THEN 0 ELSE v[j - 1]) % N) + 1
            /\ CurrentOrdem(executionState, id) = IF v = << >> THEN 0 ELSE v[Len(v)]
            /\ Len(v) <= CallsOf(id)

\* four accepted steps on a block of three instructions
C5_Witness ==
    \E i \in StepBlocks :
        /\ Len(appData[i].linhas) = 3
        /\ VisitedOf(appData[i].id) = << 1, 2, 3, 1 >>
        /\ CurrentOrdem(executionState, appData[i].id) = 1

-----------------------------------------------------------------------------
(* Claims about the codec *)

\* one scaling-rounding unit of a source range: the value of one duty step
Unit(c) == RDiv(RSub(c.max, c.min), R(255))

\* full scale of the mapping's ADC
AdcMaxOf(c) == Pow2(c.adcBits) - 1

\* C6 as stated: a PWM output value x in [sourceMin, sourceMax], encoded
\* into analog-message bytes and decoded through the analog-input path with
\* matching adcBits/min/max, comes back as x within one scaling-rounding unit.
C6_AsStated ==
    codec.stage = "decoded" =>
        /\ IsNum(codec.out)
        /\ RLe(RAbs(RSub(codec.out, codec.x)), Unit(codec))

\* C6 amended: the decoded value d is the duty round(255 (x - min)/(max - min))
\* scaled by (max - min)/adcMax, adcMax = 2^adcBits - 1; it is x within one
\* unit only after rescaling by adcMax/255:
\* |min + (d - min) adcMax/255 - x| <= (max - min)/255.
C6_RoundTripRescaled ==
    codec.stage = "decoded" =>
        /\ IsNum(codec.out)
        /\ RLe(RAbs(RSub(RAdd(codec.min,
                              RMul(RSub(codec.out, codec.min),
                                   RDiv(R(AdcMaxOf(codec)), R(255)))),
                         codec.x)),
               Unit(codec))

\* full scale of a 0..1023 source through a 10-bit mapping comes back as 255
C6_Witness ==
    /\ codec.stage = "decoded"
    /\ codec.min = R(0) /\ codec.max = R(1023) /\ codec.x = R(1023)
    /\ codec.adcBits = 10
    /\ codec.bytes = << 224 + codec.pin, 127, 1 >>
    /\ codec.out = R(255)

-----------------------------------------------------------------------------
(* Claims about the bridge session *)

\* mappings.inputs of the bridge
BridgeInputs == IF Has(appData, BridgeId) THEN Obj(appData, BridgeId).inputs ELSE << >>

\* mapping j is the Digital input mapping on pin: where several name the
\* pin, the one listed first, which is the one find returns
OnPin(j, pin) ==
    /\ BridgeInputs[j].mode = "Digital"
    /\ BridgeInputs[j].pin = pin
    /\ \A k \in 1..(j - 1) :
           ~(BridgeInputs[k].mode = "Digital" /\ BridgeInputs[k].pin = pin)

\* the mappings a report of port K reaches: on a pin of the port, with a
\* target and a property named
Reached(K) ==
    { j \in 1..Len(BridgeInputs) :
        /\ \E i \in 0..7 : OnPin(j, K * 8 + i)
        /\ Truthy(BridgeInputs[j].targetId) /\ Truthy(BridgeInputs[j].property) }

\* mapping.max when the mapping's bit of b is 1, mapping.min when it is 0
BitValue(j, b) ==
    IF (b \div Pow2(BridgeInputs[j].pin % 8)) % 2 = 1
    THEN BridgeInputs[j].max ELSE BridgeInputs[j].min

\* issued is one write per reached mapping, in ascending pin order
IssuedFor(issued, K, b) ==
    /\ Len(issued) = Cardinality(Reached(K))
    /\ \A j \in Reached(K) :
           LET n == 1 + Cardinality({ k \in Reached(K) :
                                        BridgeInputs[k].pin < BridgeInputs[j].pin })
           IN  issued[n] = Entry(BridgeInputs[j].targetId,
                                 BridgeInputs[j].property :> BitValue(j, b))

\* the value a circle is created with (App.tsx:91, 111)
InitialValue(property) == IF property = "x" THEN R(250) ELSE R(100)

\* the target property of mapping j in the store
MappedValue(j) ==
    Get(Obj(appData, BridgeInputs[j].targetId), BridgeInputs[j].property)

SameTarget(j, k) ==
    /\ BridgeInputs[j].targetId = BridgeInputs[k].targetId
    /\ BridgeInputs[j].property = BridgeInputs[k].property

\* C7: on a digital report for port K with value bits b, for each i in 0..7
\* the Digital input mapping on pin K*8+i has its target property set to
\* mapping.max when bit i of b is 1 and to mapping.min when it is 0, and
\* mappings on pins of other ports are not written: the report issues
\* exactly these writes, in pin order, and once they have settled each
\* reached target holds its value and the targets of the other ports'
\* mappings hold what they held.
C7_DigitalReportWrites ==
    /\ \A n \in 1..Len(reports) :
           reports[n].command = DIGITAL_MESSAGE
               => IssuedFor(reports[n].issued, reports[n].pinOrPort, reports[n].value)
    /\ Quiescent /\ Len(reports) = 1 /\ reports[1].command = DIGITAL_MESSAGE
           => LET K == reports[1].pinOrPort
                  b == reports[1].value
              IN  /\ \A j \in Reached(K) :
                         (\A k \in Reached(K) : SameTarget(j, k) => k = j)
                             => MappedValue(j) = BitValue(j, b)
                  /\ \A j \in 1..Len(BridgeInputs) :
                         /\ BridgeInputs[j].mode = "Digital"
                         /\ BridgeInputs[j].pin \div 8 # K
                         /\ Has(appData, BridgeInputs[j].targetId)
                         /\ \A k \in Reached(K) : ~SameTarget(j, k)
                         => MappedValue(j) = InitialValue(BridgeInputs[j].property)

\* port 1 reports bits 0 and 2: the targets of pins 8 and 10 hold their max,
\* the target of pin 9 its min, the target of pin 3 what it held
C7_Witness ==
    /\ Quiescent
    /\ Len(reports) = 1
    /\ reports[1].command = DIGITAL_MESSAGE
    /\ reports[1].pinOrPort = 1 /\ reports[1].value = 5
    /\ Len(reports[1].issued) = 3
    /\ Obj(appData, "cC").x = R(100)
    /\ Obj(appData, "cC").diametro = R(10)
    /\ Obj(appData, "cD").x = R(2)
    /\ Obj(appData, "cD").diametro = R(100)

\* a status update that has been issued and not yet run
Pending(status) ==
    \E n \in 1..Len(pendingUpdates) :
        /\ "connectionStatus" \in DOMAIN pendingUpdates[n].props
        /\ pendingUpdates[n].props["connectionStatus"] = status

\* the status became connected at position n of its history
BecameConnected(n) == n > 1 /\ statusHist[n] = "connected"

\* C8: a successful connect takes connectionStatus through connecting and
\* then connected, in that order: the status never becomes connected without
\* having been connecting before, a call that has set connected has written
\* every setup command of the bridge's mappings, and connected is set by
\* such a call only.
C8_ConnectingThenConnected ==
    /\ \A n \in 1..Len(statusHist) :
           BecameConnected(n) => \E m \in 1..(n - 1) : statusHist[m] = "connecting"
    /\ \A c \in 1..Len(calls) :
           calls[c].pc = "done"
               => /\ calls[c].sent = Len(calls[c].cmds)
                  /\ calls[c].cmds = SetupCommands(appData, calls[c].id)
                  /\ Pending("connected")
                         \/ \E n \in 1..Len(statusHist) :
                                /\ BecameConnected(n)
                                /\ \E m \in 1..(n - 1) : statusHist[m] = "connecting"
    /\ Pending("connected") \/ (\E n \in 1..Len(statusHist) : BecameConnected(n))
           => \E c \in 1..Len(calls) : calls[c].pc = "done"
    /\ \A c \in 1..Len(calls) :
           calls[c].pc = "setup" => calls[c].sent < Len(calls[c].cmds)

\* a connect that wrote nine setup commands and then set connected
C8_Witness ==
    /\ Quiescent
    /\ statusHist = << "disconnected", "connecting", "connected" >>
    /\ Status(appData) = "connected"
    /\ \E c \in 1..Len(calls) :
           /\ calls[c].pc = "done"
           /\ calls[c].sent = 9
           /\ calls[c].reading
           /\ firmataConnections[calls[c].id] = c

Caught(c) ==
    /\ c \in 1..Len(calls')
    /\ calls'[c].pc = "failed"
    /\ c \in 1..Len(calls) => calls[c].pc # "failed"

-----------------------------------------------------------------------------
(* Claims about dangling bindings and unparseable literals *)

\* the ids no object of the store has
Absent == { "zz", "yy" }

Ids(store) == { store[i].id : i \in 1..Len(store) }

\* the commands the passes have written are PWM commands of pin 5, the one
\* output whose source exists
OnlyBoundOutputs ==
    \A n \in 1..Len(written) : written[n].bytes[1] = ANALOG_MESSAGE + 5

\* C11: a binding that references an id absent from the store is inert.
\* Apply on an unknown root id merges nothing, leaves the store's contents
\* as they are and fires no trigger; a slider whose target and master are
\* absent writes itself and its slaves only; a manual block whose trigger
\* is absent is never stepped; a step whose instruction targets an absent
\* id moves the cursor and changes no object; the output re-encode skips a
\* mapping whose source is absent, sends nothing for it, caches nothing for
\* it and does not throw.
C11_DanglingBindingsInert ==
    /\ Ids(appData) \cap Absent = {}
    /\ Len(appData) = 7
    /\ \A i \in 1..Len(applied) : applied[i].id \notin Absent
    /\ pc = "traversing" /\ root.id \in Absent
           => objects = appData /\ triggeredProgs = << >> /\ applied = << >>
    /\ Settled /\ root.id \in Absent => applied = << >>
    /\ Settled /\ root.id = "sA"
           => /\ \A i \in 1..Len(applied) : applied[i].id \in { "sA", "sB" }
              /\ Obj(appData, "sA").value = root.props["value"]
              /\ Obj(appData, "sB").value = RMul(R(2), root.props["value"])
    /\ CallsOf("pM") = 0
    /\ "pM" \notin DOMAIN executionState
    /\ Obj(appData, "cC").diametro \in { R(100), R(9) }
    /\ Obj(appData, "cC").diametro = R(9) => 2 \in Range(VisitedOf("pA"))
    /\ \A id \in { "pM", "pA" } : \E snap \in InertSnapshots :
           Obj(appData, id) = Obj(snap, id)
    /\ \A k \in 1..Len(passes) : passes[k].pc # "thrown"
    /\ OnlyBoundOutputs
    /\ Key(BridgeId, 1) \notin DOMAIN lastSentOutputValues

\* the bridge is connected, the slider was set to 5 and the pass that
\* followed has sent its duty and skipped the output without a source; the
\* auto block has made the step whose instruction targets an absent id
C11_Witness ==
    /\ Quiescent
    /\ Status(appData) = "connected"
    /\ Settled /\ root = Entry("sA", "value" :> R(5))
    /\ applied = << Entry("sA", "value" :> R(5)), Entry("sB", "value" :> R(10)) >>
    /\ Len(passes) >= 2
    /\ \A k \in 1..Len(passes) : passes[k].pc = "done"
    /\ written[Len(written)].bytes = << 229, 0, 1 >>
    /\ lastSentOutputValues[Key(BridgeId, 2)] = R(5)
    /\ VisitedOf("pA") = << 1 >>
    /\ pendingWrites = << >>
    /\ Obj(appData, "cC") = Circle("cC", R(250), R(100))

\* the switch the last or the running traversal started from
RootSwitch(store) == Obj(store, root.id)

\* C12: when a bound switch's currentState is written and the selected
\* literal (valueOn for 1, valueOff otherwise) does not parse as a number,
\* no write to the target is enqueued: the traversal merges the switch's own
\* write only, the target object is unchanged after the traversal and the
\* switch's currentState is the written one.
C12_UnparseableLiteralDropped ==
    /\ pc = "traversing" /\ applied # << >> /\ root.id = "bV"
       /\ Literal(RootSwitch(objects)) = NaN
           => /\ updateQueue = << >>
              /\ applied = << root >>
              /\ Obj(objects, RootSwitch(objects).targetId)
                     = Obj(appData, RootSwitch(objects).targetId)
              /\ RootSwitch(objects).currentState = root.props["currentState"]
    /\ RootIsSwitchState /\ Bound(RootSwitch(appData))
       /\ Literal(RootSwitch(appData)) = NaN
           => /\ applied = << root >>
              /\ RootSwitch(appData).currentState = root.props["currentState"]
              /\ IsNum(TargetValue(RootSwitch(appData)))

\* the switch was set to 1 with valueOn "on": it holds 1 and the circle is
\* as it was
C12_Witness ==
    /\ RootIsSwitchState
    /\ root = Entry("bV", "currentState" :> R(1))
    /\ RootSwitch(appData).valueOn = << "o", "n" >>
    /\ RootSwitch(appData).currentState = R(1)
    /\ Obj(appData, "cC") = Circle("cC", R(250), R(100))

-----------------------------------------------------------------------------
(* Claims about the timed blocks *)

\* the write of the first instruction of block pA (sA.value := 5) has run
\* and nothing else has written the store
FirstWriteRan ==
    /\ Quiescent
    /\ pendingWrites = << >>
    /\ events = 0
    /\ VisitedOf("pA") # << >>

\* C13 as stated: the property write issued by step goes through the
\* propagation engine: when the instruction targets a slider's value, then
\* after the write settles the slider holds the value, its bound target and
\* its slave sliders reflect it, and the manual blocks the slider triggers
\* are recorded (stepped).
C13_AsStated ==
    FirstWriteRan =>
        /\ Obj(appData, "sA").value = R(5)
        /\ TargetValue(Obj(appData, "sA")) = R(5)
        /\ \A i \in SlavesOf("sA") :
               SlaveFollows(Obj(appData, "sA"), appData[i], R(5))
        /\ CallsOf("pM") >= 1

\* C15 as stated: after deleteShape on a sequenced block (the deletion
\* committed and rendered), its auto timer is gone and so never fires again,
\* its cursor entry is absent from the execution state, and its cooldown flag
\* is dropped.
C15_AsStated ==
    \A id \in TimerDeletes :
        Quiescent /\ ~Has(appData, id) =>
            /\ id \notin DOMAIN timers
            /\ id \notin DOMAIN executionState
            /\ id \notin triggerCooldowns

\* C19 as stated: every auto block with instructions is stepped once per
\* autoInterval for as long as it exists, whatever else is written and
\* whatever other timers do: it never waits longer than its interval for
\* its next firing.
C19_AsStated == \A id \in DOMAIN waited : waited[id] <= IntervalOf(id)

-----------------------------------------------------------------------------
(* Claims about several writes to one target *)

\* the sliders whose value the last traversal wrote
WrittenSliders ==
    { applied[i].id : i \in { j \in 1..Len(applied) :
          /\ "value" \in DOMAIN applied[j].props
          /\ Obj(appData, applied[j].id).type = "slider" } }

\* C20 as stated: after an apply traversal has settled, every slider whose
\* value was written during the traversal (the root or a slave reached
\* through inheritance) has its bound target property equal to its final
\* value, also when two sliders written in the traversal are bound to
\* different properties of the same target object.
C20_AsStated ==
    Settled =>
        \A id \in WrittenSliders :
            Bound(Obj(appData, id))
                => TargetValue(Obj(appData, id)) = Obj(appData, id).value

-----------------------------------------------------------------------------
(* Claims about the session and its output re-encode *)

\* the writes pending on connection c: the setup write its connect call
\* awaits and the write each pass on it awaits
PendingOn(c) ==
    (IF calls[c].pc = "setup" THEN 1 ELSE 0)
        + Cardinality({ k \in 1..Len(passes) :
                          passes[k].pc = "writing" /\ passes[k].conn = c })

\* C14 as stated: for one connection, no transport write is started while an
\* earlier write on that connection is still pending, across the setup
\* writes and all output re-encode passes: at most one write is pending.
C14_AsStated == \A c \in 1..Len(calls) : PendingOn(c) <= 1

\* no call, disconnect or pass is under way
AtRest ==
    /\ Quiescent
    /\ \A c \in 1..Len(calls) : calls[c].pc \in { "done", "failed" }
    /\ \A k \in 1..Len(closers) : closers[k].pc = "closed"
    /\ \A k \in 1..Len(passes) : passes[k].pc # "writing"

\* C16 as stated: after deleteShape on a bridge that has a connection, the
\* connection is closed and unregistered, its read loop has stopped, and its
\* shadow registers and cached last-sent output values are dropped.
C16_AsStated ==
    AtRest /\ ~Has(appData, BridgeId) =>
        /\ BridgeId \notin DOMAIN firmataConnections
        /\ \A c \in 1..Len(calls) : ~calls[c].reading
        /\ BridgeId \notin DOMAIN digitalPortStates
        /\ \A key \in DOMAIN lastSentOutputValues : key[1] # BridgeId

\* the writes started on connection c so far, at setup and by the passes
StartedOn(c) ==
    (IF calls[c].pc = "setup" THEN calls[c].sent + 1 ELSE calls[c].sent)
        + Cardinality({ n \in 1..Len(written) : written[n].conn = c })

\* C17 as stated: once a disconnect has started closing the connection, no
\* further byte is written to that transport and no further change is made
\* to the connection's shadow register, also not by a pass that was awaiting
\* a write when the disconnect began; and once the reader's cancellation has
\* resolved the read loop has exited and the write lock is released.
C17_AsStated ==
    [][\A k \in 1..Len(closers) :
           /\ (StartedOn(closers[k].conn))' = StartedOn(closers[k].conn)
           /\ closers[k].id \in DOMAIN digitalPortStates
              /\ closers[k].id \in DOMAIN digitalPortStates'
                  => digitalPortStates'[closers[k].id]
                         = digitalPortStates[closers[k].id]
           /\ closers[k].pc = "porting"
                  => /\ ~calls[closers[k].conn].reading
                     /\ closers[k].conn \in released]_vars

\* C18 as stated: any transport failure on a bridge (rejection of open, of a
\* read in the read loop, or of a write) moves the bridge's connectionStatus
\* to error (and from there to disconnected after the delay); the read loop
\* exits on the first read failure.
C18_AsStated ==
    /\ \A f \in faults : f.kind = "read" => ~calls[f.conn].reading
    /\ Quiescent /\ Has(appData, BridgeId)
       /\ (faults # {} \/ \E c \in 1..Len(calls) : calls[c].pc = "failed")
           => /\ \E n \in 1..Len(statusHist) : statusHist[n] = "error"
              /\ Status(appData) \in { "error", "disconnected", "connecting" }

-----------------------------------------------------------------------------
(* Claims about the visited check, the manual triggers and termination *)

\* an iteration of the worklist loop is taken
Popping == pc = "traversing" /\ updateQueue # << >> /\ hops' = hops + 1

\* C21: within one traversal, a pending write to an id already processed is
\* applied (merged, with dependency discovery) if and only if its properties
\* contain the key value or currentState; every other pending write to an
\* already-processed id is discarded without being merged and without
\* dependency discovery.
C21_VisitedCheckExemptsTwoKeys ==
    [][Popping /\ Head(updateQueue).id \in processedIds =>
          IF Exempt(Head(updateQueue).props)
          THEN /\ applied' = Append(applied, Head(updateQueue))
               /\ objects' = MergedObjects(objects, Head(updateQueue))
               /\ updateQueue' = Tail(updateQueue)
                                     \o Pushes(objects, Head(updateQueue))
          ELSE /\ applied' = applied
               /\ objects' = objects
               /\ updateQueue' = Tail(updateQueue)
               /\ triggeredProgs' = triggeredProgs]_vars

\* a traversal that merged two writes of value into one slider and dropped
\* the second write to that slider's target
C21_Witness ==
    /\ Settled
    /\ \E i, j \in 1..Len(applied) :
           /\ i < j
           /\ applied[i].id = "sB" /\ applied[j].id = "sB"
    /\ WritesTo("cC", "diametro") = 1
    /\ Obj(appData, "sB").targetId = "cC"
    /\ Obj(appData, "cC").diametro # Obj(appData, "sB").value

\* the objects the traversal under way has written
WrittenIds == { applied[i].id : i \in 1..Len(applied) }

\* the blocks of the working copy the traversal is to step
ToStep ==
    { objects[i].id : i \in { j \in 1..Len(objects) :
          /\ objects[j].type = "programming"
          /\ objects[j].executionMode = "manual"
          /\ objects[j].manualTriggerId \in WrittenIds } }

\* the blocks of the working copy
Blocks ==
    { objects[i].id : i \in { j \in 1..Len(objects) :
                                objects[j].type = "programming" } }

\* C22: for one apply call, each manual block whose manualTriggerId is the
\* id of an object written during the traversal (whatever the object's type
\* or the property written) has the step procedure called for it exactly
\* once, and only after the worklist is empty; auto blocks and blocks whose
\* trigger was not written are not stepped.
C22_TriggersFireOnceAfterDrain ==
    [][/\ pc = "traversing" /\ pc' = "traversing" => stepCalls' = stepCalls
       /\ pc = "traversing" /\ pc' = "idle" =>
              /\ updateQueue = << >>
              /\ \A id \in Blocks :
                     (CallsOf(id))' =
                         CallsOf(id) + (IF id \in ToStep THEN 1 ELSE 0)]_vars

\* a traversal that wrote the root slider, its slave and its target has
\* stepped the four blocks they trigger, once each, and no other block
C22_Witness ==
    /\ Settled
    /\ WrittenIds = { "sA", "sB", "cC" }
    /\ CallsOf("pR") = 1 /\ CallsOf("pS") = 1
    /\ CallsOf("pT") = 1 /\ CallsOf("pU") = 1
    /\ CallsOf("pN") = 0 /\ CallsOf("pA") = 0

\* the directed graph of a store: an edge from a slider or switch to its
\* bound target, and from a master slider to each slider inheriting from it
Edges(store) ==
    { << store[i].id, store[i].targetId >> : i \in { j \in 1..Len(store) :
          /\ store[j].type \in { "slider", "button" }
          /\ Truthy(store[j].targetId) /\ Truthy(store[j].targetProperty) } }
    \cup
    { << store[i].inheritedSliderId, store[i].id >> : i \in { j \in 1..Len(store) :
          /\ store[j].type = "slider"
          /\ Truthy(store[j].inheritedSliderId) } }

RECURSIVE ReachIn(_, _, _)
\* the ids reached from the set from in at most n more edges
ReachIn(edges, from, n) ==
    IF n = 0 THEN from
    ELSE ReachIn(edges, from \cup { e[2] : e \in { d \in edges : d[1] \in from } },
                 n - 1)

Cyclic(store) ==
    \E e \in Edges(store) :
        e[1] \in ReachIn(Edges(store), { e[2] }, Len(store))

\* the loop has run its full number of hops and the worklist is not empty
Stuck == pc = "traversing" /\ hops = MaxHops /\ updateQueue # << >>

\* C23: apply terminates (the worklist becomes empty after finitely many
\* pops) for every store whose graph of target bindings and inheritance
\* links has no cycle: no traversal of such a store runs out of hops.
C23_AcyclicStoresTerminate == Stuck => Cyclic(objects)

\* a traversal from the master slider of a store without a cycle has merged
\* five writes or more and returned
C23_Witness ==
    /\ Settled
    /\ ~Cyclic(appData)
    /\ Len(applied) >= 5
    /\ root.id = "sA"

\* sliders sA and sB of the store inherit from each other
InheritanceCycle(store) ==
    /\ Has(store, "sA") /\ Has(store, "sB")
    /\ Obj(store, "sA").inheritedSliderId = "sB"
    /\ Obj(store, "sB").inheritedSliderId = "sA"

\* the traversal under way is apply(id, {key: ...})
Applying(id, key) ==
    pc = "traversing" /\ root.id = id /\ key \in DOMAIN root.props

\* C24 as stated: with sliders A and B inheriting from each other,
\* apply(A, {value: v}) loops indefinitely: the worklist never drains.
C24_AsStated ==
    Applying("sA", "value") /\ InheritanceCycle(objects) => updateQueue # << >>

\* no slider or switch of the store is bound to sA or sB
Untargeted(store) ==
    \A e \in Edges(store) :
        e[2] \in { "sA", "sB" } => e[1] \in { "sA", "sB" }

\* C24 amended: with sliders A and B inheriting from each other and bound
\* to by no object, apply(A, {value: v}) returns: a slave write is queued
\* only when the slave's value differs from the rescaled one, so the
\* traversal merges at most three writes of value into the two sliders and
\* never runs out of hops.
C24_InheritanceCycleDrains ==
    Applying("sA", "value") /\ InheritanceCycle(objects) /\ Untargeted(objects) =>
        /\ WritesTo("sA", "value") + WritesTo("sB", "value") <= 3
        /\ ~Stuck

\* apply(sA, {value: 5}) on sliders of one point and of a range that inherit
\* from each other has written sA, sB and sA again and returned
C24_Witness ==
    /\ Settled
    /\ InheritanceCycle(appData)
    /\ root = Entry("sA", "value" :> R(5))
    /\ WritesTo("sA", "value") = 2 /\ WritesTo("sB", "value") = 1

\* objects a and b of the store are bound to each other's property p
BoundToEachOther(store, a, b, p) ==
    /\ Has(store, a) /\ Has(store, b)
    /\ Obj(store, a).targetId = b /\ Obj(store, a).targetProperty = p
    /\ Obj(store, b).targetId = a /\ Obj(store, b).targetProperty = p

\* C25: a dependency cycle through the exempt fields is not detected or
\* guarded: with sliders A and B bound to each other's value, or two
\* switches bound to each other's currentState with numeric literals, apply
\* on A never drains the worklist: every pop merges its entry and leaves an
\* entry in the queue.
C25_TargetCycleNeverDrains ==
    /\ Applying("sA", "value") /\ BoundToEachOther(objects, "sA", "sB", "value")
           => updateQueue # << >> /\ Len(applied) = hops
    /\ Applying("bV", "currentState")
       /\ BoundToEachOther(objects, "bV", "bW", "currentState")
           => updateQueue # << >> /\ Len(applied) = hops

\* apply(sA, {value: 5}) on sliders bound to each other's value has merged
\* a write at every one of its hops and still has an entry queued
C25_Witness ==
    /\ Stuck
    /\ Applying("sA", "value")
    /\ BoundToEachOther(objects, "sA", "sB", "value")
    /\ Len(applied) = MaxHops
    /\ Obj(objects, "sB").value = R(5)

-----------------------------------------------------------------------------
(* Claims about the cooldown and the cursor *)

\* the setExecutionState updaters held for block progId
ExecsFor(progId) ==
    Cardinality({ i \in 1..Len(pendingUpdates) :
                    /\ pendingUpdates[i].kind = "exec"
                    /\ pendingUpdates[i].id = progId })

\* this step calls the step procedure for block progId
StepCalled(progId) == (CallsOf(progId))' = CallsOf(progId) + 1

\* C26: a step call made while the block's cooldown flag is set changes
\* neither the cursor nor any object and schedules no write; a step that is
\* accepted sets the flag; the flag stays set until its 100 ms timeout
\* clears it, and the cursor advances only through the one updater an
\* accepted call has queued, so of any two step calls with no timeout
\* between them at most one advances the cursor.
C26_CooldownHoldsSteps ==
    [][/\ StepCalled("pB") /\ "pB" \in triggerCooldowns =>
              /\ (ExecsFor("pB"))' = ExecsFor("pB")
              /\ executionState' = executionState
              /\ pendingWrites' = pendingWrites
              /\ triggerCooldowns' = triggerCooldowns
              /\ pc = "idle" => appData' = appData
       /\ StepCalled("pB") /\ "pB" \notin triggerCooldowns =>
              /\ "pB" \in triggerCooldowns'
              /\ (ExecsFor("pB"))' = 1
       /\ ExecsFor("pB") <= 1
       /\ ExecsFor("pB") = 1 => "pB" \in triggerCooldowns
       /\ executionState' # executionState =>
              /\ ExecsFor("pB") = 1 /\ (ExecsFor("pB"))' = 0
              /\ "pB" \in triggerCooldowns']_vars

\* the step procedure was called twice for the block within one cooldown:
\* the cursor advanced once and the flag is still set
C26_Witness ==
    /\ CallsOf("pB") = 2
    /\ Len(VisitedOf("pB")) = 1
    /\ "pB" \in triggerCooldowns
    /\ Quiescent

\* the instructions block id has in a store, none when it is absent
LinesOf(store, id) == IF Has(store, id) THEN Len(Obj(store, id).linhas) ELSE 0

\* C27 as stated: in every reachable state, under any interleaving of steps,
\* instruction additions and instruction deletions, each block's cursor lies
\* between 0 and the block's current number of instructions.
C27_AsStated ==
    \A id \in DOMAIN executionState :
        /\ 0 <= executionState[id]
        /\ executionState[id] <= LinesOf(appData, id)

\* C27 amended: a step sets the cursor to a value between 1 and the number
\* of instructions the block has when the step runs; additions and
\* deletions of instructions leave the cursor as it is, so that after a
\* deletion it may exceed the current number of instructions until the next
\* step.
C27_CursorWithinListAtStep ==
    [][/\ \A id \in DOMAIN executionState' :
              CurrentOrdem(executionState, id) # executionState'[id] =>
                  /\ 1 <= executionState'[id]
                  /\ executionState'[id] <= LinesOf(appDataRef, id)
       /\ (\E id \in DOMAIN executionState :
               LinesOf(appData', id) # LinesOf(appData, id))
              => executionState' = executionState]_vars

\* an instruction was deleted while the cursor was on the last of three, and
\* the next step has brought the cursor back into the list of two
C27_Witness ==
    /\ VisitedOf("pB") = << 1, 2, 3, 2 >>
    /\ executionState["pB"] = 2
    /\ LinesOf(appData, "pB") = 2

-----------------------------------------------------------------------------
(* Claims about the output re-encode pass *)

\* one undisturbed connection is up and every pass begun has run to its end
PassesFinished ==
    /\ Quiescent
    /\ Len(calls) = 1 /\ closers = << >> /\ faults = {}
    /\ Status(appData) = "connected"
    /\ BridgeId \in DOMAIN firmataConnections
    /\ passes # << >>
    /\ \A k \in 1..Len(passes) : passes[k].pc = "done"

\* C28 as stated: if the store changes while a pass is still awaiting a
\* write, then once all passes have finished, for every output mapping of
\* the connected bridge the value last written (and cached as last sent) is
\* the one of the source's latest value, never one from an older snapshot
\* of the store.
C28_AsStated ==
    PassesFinished =>
        \A index \in 1..Len(Obj(appData, BridgeId).outputs) :
            SourceFound(appData, Obj(appData, BridgeId).outputs[index]) =>
                LastValue(lastSentOutputValues, Key(BridgeId, index))
                    = Get(SourceOf(appData, Obj(appData, BridgeId).outputs[index]),
                          Obj(appData, BridgeId).outputs[index].property)

\* output mapping index of the bridge in a store, and its source's value
OutputAt(store, index) == Obj(store, BridgeId).outputs[index]
SourceValue(store, index) ==
    Get(SourceOf(store, OutputAt(store, index)), OutputAt(store, index).property)

\* the mapping has a source in the store whose value is not the one last
\* sent for this index of the bridge
Differs(store, index) ==
    /\ SourceFound(store, OutputAt(store, index))
    /\ SourceValue(store, index)
           # LastValue(lastSentOutputValues, << BridgeId, index >>)

\* the pass p, now q, has gone through the mappings from index from on up to
\* its next write or its end: it passed over those that do not differ, and
\* encoded and wrote the first that does
ScannedFrom(p, q, from) ==
    LET to == IF q.pc = "done" THEN Len(Obj(p.store, BridgeId).outputs) + 1
              ELSE q.at
    IN  /\ \A index \in from..(to - 1) : ~Differs(p.store, index)
        /\ q.pc = "done" =>
               written' = written /\ lastSentOutputValues' = lastSentOutputValues
        /\ q.pc # "done" =>
               /\ Differs(p.store, to)
               /\ lastSentOutputValues' =
                      (<< BridgeId, to >> :> SourceValue(p.store, to))
                          @@ lastSentOutputValues
               /\ q.pc = "writing"
               /\ Len(written') = Len(written) + 1
               /\ written'[Len(written')].conn = p.conn

\* C29 as stated: in a re-encode pass an output mapping is encoded and
\* written if and only if the value of its source's property differs from
\* the value last sent for that mapping index of that bridge; two mappings
\* that watch the same source are each written when the source changes.
C29_AsStated ==
    [][/\ Len(passes') = Len(passes) + 1 =>
              ScannedFrom(passes'[Len(passes')], passes'[Len(passes')], 1)
       /\ \A k \in 1..Len(passes) :
              Len(passes') = Len(passes)
              /\ passes[k].pc = "writing" /\ passes'[k] # passes[k]
              /\ (passes'[k].pc = "done" \/ passes'[k].at > passes[k].at)
                  => ScannedFrom(passes[k], passes'[k], passes[k].at + 1)]_vars

\* bit b of a register
BitOf(register, b) == (register \div Pow2(b)) % 2

\* the pass p, now q, has processed the Digital mapping it is at: bit
\* (pin mod 8) of the register of port floor(pin / 8) holds whether the
\* source's value is above zero, the other bits of that register and the
\* other registers are as they were, and the whole register went out as one
\* digital message of that port on the connection of the pass; a write on a
\* writer whose lock was released is handed over and rejected
DigitalEffect(p, q) ==
    LET pin == OutputAt(p.store, q.at).pin
        portNumber == pin \div 8
        high == IF RLt(R(0), SourceValue(p.store, q.at)) THEN 1 ELSE 0
    IN  /\ BridgeId \in DOMAIN digitalPortStates
        /\ BridgeId \in DOMAIN digitalPortStates'
        /\ \A n \in 0..15 :
               n # portNumber =>
                   digitalPortStates'[BridgeId][n] = digitalPortStates[BridgeId][n]
        /\ \A b \in 0..7 :
               BitOf(digitalPortStates'[BridgeId][portNumber], b)
                   = IF b = pin % 8 THEN high
                     ELSE BitOf(digitalPortStates[BridgeId][portNumber], b)
        /\ digitalPortStates'[BridgeId][portNumber] < 256
        /\ q.pc = "thrown" => written' = written /\ p.conn \in released
        /\ q.pc = "writing" =>
               /\ Len(written') = Len(written) + 1
               /\ written'[Len(written')] =
                      [conn |-> p.conn,
                       bytes |-> << 144 + portNumber,
                                    digitalPortStates'[BridgeId][portNumber] % 128,
                                    digitalPortStates'[BridgeId][portNumber] \div 128 >>]

\* the pass q is at a Digital mapping
AtDigital(p, q) ==
    q.pc # "done" /\ OutputAt(p.store, q.at).mode = "Digital"

\* C30 as stated: processing a Digital output mapping on pin p sets bit
\* (p mod 8) of the shadow register of port floor(p / 8) to (source value
\* > 0), leaves every other bit of that register and every other port's
\* register unchanged, and sends the complete register of that port as one
\* digital-message command.
C30_AsStated ==
    [][/\ Len(passes') = Len(passes) + 1 /\ AtDigital(passes'[Len(passes')],
                                                       passes'[Len(passes')])
              => DigitalEffect(passes'[Len(passes')], passes'[Len(passes')])
       /\ \A k \in 1..Len(passes) :
              Len(passes') = Len(passes)
              /\ passes[k].pc = "writing" /\ passes'[k] # passes[k]
              /\ passes'[k].at > passes[k].at
              /\ AtDigital(passes[k], passes'[k])
                  => DigitalEffect(passes[k], passes'[k])]_vars

-----------------------------------------------------------------------------
(* Claims about the input side of the bridge *)

\* the Digital input mappings that name a pin of port K, a target and a
\* property, whether or not another mapping names the same pin before them
NamedOn(K) ==
    { j \in 1..Len(BridgeInputs) :
        /\ BridgeInputs[j].mode = "Digital"
        /\ BridgeInputs[j].pin \div 8 = K
        /\ Truthy(BridgeInputs[j].targetId) /\ Truthy(BridgeInputs[j].property) }

\* C32 as stated: on a digital report, every input mapping with mode
\* Digital on a reported pin is applied: when two Digital input mappings
\* name the same pin with different targets, both targets are written.
C32_AsStated ==
    \A n \in 1..Len(reports) :
        reports[n].command = DIGITAL_MESSAGE =>
            \A j \in NamedOn(reports[n].pinOrPort) :
                \E w \in 1..Len(reports[n].issued) :
                    reports[n].issued[w]
                        = Entry(BridgeInputs[j].targetId,
                                BridgeInputs[j].property
                                    :> BitValue(j, reports[n].value))

-----------------------------------------------------------------------------
(* Claims about a bridge that is connected again *)

\* the bridge of the store is connected, its connection is registered, and
\* no call, disconnect or pass is under way
ConnectedAtRest ==
    /\ AtRest
    /\ Sends(appData)
    /\ BridgeId \in DOMAIN digitalPortStates

\* C31 as stated: after a re-encode pass has completed for a connected
\* bridge, every shadow-register bit that belongs to the pin of a Digital
\* output mapping with an existing source equals (that source's value > 0),
\* also after the bridge was disconnected and connected again without the
\* source changing.
C31_AsStated ==
    ConnectedAtRest =>
        \A index \in 1..Len(Obj(appData, BridgeId).outputs) :
            /\ OutputAt(appData, index).mode = "Digital"
            /\ SourceFound(appData, OutputAt(appData, index))
            => BitOf(digitalPortStates[BridgeId][OutputAt(appData, index).pin \div 8],
                     OutputAt(appData, index).pin % 8)
                   = IF RLt(R(0), SourceValue(appData, index)) THEN 1 ELSE 0

-----------------------------------------------------------------------------
(* Claims about the parser and the analog decode *)

\* a byte whose high nibble is the analog or the digital command
IsCommand(byte) == byte \div 16 \in { 14, 9 }

RECURSIVE Framed(_)
\* the messages of a stream read as frames: bytes are skipped up to a
\* command byte, which takes the two bytes after it as its payload
Framed(stream) ==
    IF stream = << >> THEN << >>
    ELSE IF ~IsCommand(Head(stream)) THEN Framed(Tail(stream))
    ELSE IF Len(stream) < 3 THEN << >>
    ELSE << [command |-> 16 * (Head(stream) \div 16),
             pinOrPort |-> Head(stream) % 16,
             buffer |-> << stream[2], stream[3] >>] >>
             \o Framed(SubSeq(stream, 4, Len(stream)))

RECURSIVE Unframed(_)
\* the frame a stream ends in the middle of: its command byte and the
\* payload bytes that have come, << >> when the stream ends between frames
Unframed(stream) ==
    IF stream = << >> THEN << >>
    ELSE IF ~IsCommand(Head(stream)) THEN Unframed(Tail(stream))
    ELSE IF Len(stream) < 3 THEN stream
    ELSE Unframed(SubSeq(stream, 4, Len(stream)))

\* C33: for any incoming byte stream the parser has two states: in idle it
\* ignores every byte whose high nibble is not the analog or the digital
\* command and stays idle with an empty buffer; on such a command byte it
\* enters collecting, takes exactly the next two bytes as payload, dispatches
\* exactly one message and returns to idle with an empty buffer; the buffer
\* never holds two bytes between byte-processing steps.  So the messages
\* dispatched are the frames of the stream, and the parser is collecting
\* exactly when the stream ends inside a frame, holding that frame's bytes.
C33_ParserTwoStates ==
    LET parser == codec.parser
        frame == Unframed(codec.stream)
    IN  /\ [j \in 1..Len(codec.messages) |->
               [command |-> codec.messages[j].command,
                pinOrPort |-> codec.messages[j].pinOrPort,
                buffer |-> codec.messages[j].buffer]] = Framed(codec.stream)
        /\ parser.state \in { "idle", "collecting" }
        /\ parser.state = "idle" <=> frame = << >>
        /\ parser.state = "idle" => parser.buffer = << >>
        /\ parser.state = "collecting" =>
               /\ parser.buffer = Tail(frame)
               /\ parser.command = 16 * (Head(frame) \div 16)
               /\ parser.pinOrPort = Head(frame) % 16
        /\ Len(parser.buffer) < 2

\* a byte that is no command is passed over, an analog command takes 0x91
\* and 0x07 as its payload although 0x91 reads as a command, one message is
\* dispatched, and the next command byte finds the buffer empty
C33_Witness ==
    /\ codec.stream = << 240, 224, 145, 7, 229 >>
    /\ Len(codec.messages) = 1
    /\ codec.messages[1].command = ANALOG_MESSAGE
    /\ codec.messages[1].buffer = << 145, 7 >>
    /\ codec.parser.state = "collecting"
    /\ codec.parser.pinOrPort = 5
    /\ codec.parser.buffer = << >>

-----------------------------------------------------------------------------
(* Claims about the connect-time setup *)

\* mappings.outputs of the bridge
BridgeOutputs == IF Has(appData, BridgeId) THEN Obj(appData, BridgeId).outputs ELSE << >>

\* the pin-mode-set command of output mapping j
OutputCommand(j) ==
    << 244, BridgeOutputs[j].pin, IF BridgeOutputs[j].mode = "PWM" THEN 3 ELSE 1 >>

\* cmds holds at n the pin-mode-set command of input mapping j (analog or
\* input) and right after it the reporting-enable command of the pin's
\* analog channel or digital port
InputCommandsAt(cmds, j, n) ==
    /\ n >= 1 /\ n + 1 <= Len(cmds)
    /\ cmds[n] = << 244, BridgeInputs[j].pin,
                    IF BridgeInputs[j].mode = "Analog" THEN 2 ELSE 0 >>
    /\ cmds[n + 1] = << IF BridgeInputs[j].mode = "Analog"
                        THEN 192 + (BridgeInputs[j].pin - 14)
                        ELSE 208 + BridgeInputs[j].pin \div 8, 1 >>

SetUp(j) == ~(BridgeInputs[j].mode = "Analog" /\ BridgeInputs[j].pin < 14)

\* the input mappings up to j that are set up
SetUpTo(j) == { k \in 1..j : SetUp(k) }

WrittenOn(c) == { n \in 1..Len(written) : written[n].conn = c }

\* C35 as stated: when a disconnect of a bridge completes, all
\* per-connection state of that bridge has been removed (the registered
\* connection with its parser cursor and buffer, the digital shadow
\* registers and the last-sent output cache), so that a later reconnect
\* starts from none of it and sends every output mapping's current value
\* again.
C35_AsStated ==
    /\ AtRest /\ closers # << >> /\ BridgeId \notin DOMAIN firmataConnections
           => /\ BridgeId \notin DOMAIN digitalPortStates
              /\ \A key \in DOMAIN lastSentOutputValues : key[1] # BridgeId
    /\ ConnectedAtRest
           => Cardinality(WrittenOn(firmataConnections[BridgeId]))
                  >= Cardinality({ index \in 1..Len(Obj(appData, BridgeId).outputs) :
                                     SourceFound(appData, OutputAt(appData, index)) })

-----------------------------------------------------------------------------
(* Claims about what a traversal leaves alone *)

\* the ids a traversal from its root can reach in a store: the root and
\* what follows from it along target bindings and inheritance links
ReachOfRoot(store) == ReachIn(Edges(store), { root.id }, Len(store))

\* C36: apply(rootId, props) never adds, removes or reorders objects, and
\* leaves unchanged every object that is neither the root nor reachable
\* from the root through slider/switch target bindings or slider
\* inheritance links: the store a traversal returns has the ids of the old
\* one at the same places, and differs from it at reachable objects only.
C36_ApplyFrame ==
    [][pc = "traversing" /\ pc' = "idle" =>
           /\ Len(appData') = Len(appData)
           /\ \A i \in 1..Len(appData) :
                  /\ appData'[i].id = appData[i].id
                  /\ appData[i].id \notin ReachOfRoot(appData)
                         => appData'[i] = appData[i]]_vars

\* a traversal from sA has written sA and at least one object bound to it
\* and returned, in a store where the circle is out of its reach
C36_Witness ==
    /\ pc = "idle"
    /\ root.id = "sA"
    /\ Len(applied) >= 2
    /\ Obj(appData, "sA").value = R(5)
    /\ "sB" \in ReachOfRoot(appData)
    /\ "cC" \notin ReachOfRoot(appData)
    /\ Obj(appData, "cC").x = R(250)

-----------------------------------------------------------------------------
(* Claims about the command bytes *)

\* the high nibble of a byte
Nibble(byte) == byte \div 16

\* the output mapping a frame of a pass was built for has the given mode:
\* frame n follows the n-th command byte rule of its mode
FrameOf(n, mode) ==
    \E k \in 1..Len(passes) :
        /\ passes[k].w = n /\ passes[k].at > 0
        /\ OutputAt(passes[k].store, passes[k].at).mode = mode

\* C37 as stated: every command byte written to the transport keeps its
\* command nibble for every mapping pin number: the bytes built as
\* 0xE0|pin, 0x90|port, 0xC0|analogChannel and 0xD0|port have high nibble
\* 0xE, 0x9, 0xC and 0xD respectively (the selector never overflows 4
\* bits), and every payload byte of an analog or digital message is at most
\* 0x7F.
C37_AsStated ==
    /\ \A n \in 1..Len(written) :
           /\ Nibble(written[n].bytes[1]) \in { 14, 9 }
           /\ FrameOf(n, "PWM") => Nibble(written[n].bytes[1]) = 14
           /\ FrameOf(n, "Digital") => Nibble(written[n].bytes[1]) = 9
           /\ written[n].bytes[2] <= 127 /\ written[n].bytes[3] <= 127
    /\ \A c \in 1..Len(calls) :
           calls[c].pc = "done" =>
               \A j \in 1..Len(BridgeInputs) :
                   SetUp(j) =>
                       Nibble(calls[c].cmds[Len(BridgeOutputs)
                                                + 2 * Cardinality(SetUpTo(j))][1])
                           = IF BridgeInputs[j].mode = "Analog" THEN 12 ELSE 13

\* the Analog input mappings of the bridge on the pin of analog channel
\* pinOrPort
AnalogOn(pinOrPort) ==
    { j \in 1..Len(BridgeInputs) :
        BridgeInputs[j].mode = "Analog" /\ BridgeInputs[j].pin = pinOrPort + 14 }

\* the value of a two-byte payload, 7 bits in each byte
ReportValue(buffer) == (buffer[1] % 128) + 128 * (buffer[2] % 128)

\* a lies between b and c, in whichever order these are
Between(a, b, c) == (RLe(b, a) /\ RLe(a, c)) \/ (RLe(c, a) /\ RLe(a, b))

\* the analog reports dispatched so far whose payload is a 14-bit value
AnalogReports ==
    { n \in 1..Len(codec.messages) :
        /\ codec.messages[n].command = ANALOG_MESSAGE
        /\ codec.messages[n].buffer[1] < 128 /\ codec.messages[n].buffer[2] < 128 }

-----------------------------------------------------------------------------
(* Claims about the connections of a bridge *)

\* the connect calls of the bridge whose port is open: open has resolved
\* and no disconnect has taken the connection
OpenPorts ==
    { c \in 1..Len(calls) :
        /\ calls[c].id = BridgeId
        /\ calls[c].pc \in { "setup", "done" }
        /\ \A k \in 1..Len(closers) : closers[k].conn # c }

\* the connect calls whose read loop is running
ReadLoops == { c \in 1..Len(calls) : calls[c].reading }

\* C39 as stated: at most one transport connection is ever opened and
\* registered per bridge: a second connect call for the same bridge issued
\* while the first is still awaiting the port request or open does not open
\* a second port or start a second read loop.
C39_AsStated ==
    /\ Cardinality(OpenPorts) <= 1
    /\ Cardinality(ReadLoops) <= 1

\* C40 as stated: in every reachable state, including the state right after
\* startup from a persisted snapshot, a bridge whose connectionStatus is
\* connected has a registered connection, so that disconnect on it is never
\* a silent no-op that leaves the status at connected.
C40_AsStated ==
    Has(appData, BridgeId) /\ Status(appData) = "connected"
        => BridgeId \in DOMAIN firmataConnections

====
